---- MODULE Spec2Model ----
(***************************************************************************)
(* A model of the SysY compiler front end of Compiler-Term-Project:       *)
(* the symbol table (src/src/frontend/symbol_table.cpp) and the AST       *)
(* lowering to Koopa IR (src/src/frontend/ast.h).                         *)
(*                                                                         *)
(* Strings that the code builds with fmt::format are modelled as          *)
(* sequences of one-character strings, so that two formatted names are    *)
(* equal in the model exactly when the C++ strings are equal.             *)
(***************************************************************************)
EXTENDS Integers, Sequences, FiniteSets, TLC

VARIABLES
    table_stack,    \* symbol_table_t::table_stack: a sequence of maps raw name -> symbol
    use_count,      \* symbol_table_t::use_count: "<raw>_<depth>" -> times used
    names_given,    \* history: internal names given to const/variable symbols, in order
    open_log,       \* history: per open scope, the <<raw, symbol>> inserts made in it
    popped,         \* history: the symbols that were inserted in scopes popped since
    n_inserts,      \* history: number of insert calls so far
    counters,       \* the global_*_id counters of ast.h
    koopa,          \* the Koopa IR emitted so far, one instruction per element
    expr,           \* the expression handed to folding and lowering
    env,            \* run time: the value a call returns, by callee name
    fold_result,    \* what get_inline_number returned for expr
    result,         \* the operand that stands for the value of expr in the IR
    phase,          \* position of the front end and of the IR run
    run_pc,         \* run time: index in koopa of the next instruction
    tmp_val,        \* run time: the value of each temporary %N
    slot_mem,       \* run time: the word of each alloc, by the allocating %N
    var_mem,        \* run time: the word of each named variable @name
    executed,       \* history: indices of the instructions executed
    call_log,       \* history: the callees called, in order
    br_log,         \* history: <<index, condition value>> of each br executed
    frames,         \* the statements whose to_koopa is on the call stack, outermost first
    items_left,     \* the functions and statements the walk may still begin
    raw,            \* back end: the raw program's function, one typed instruction per element
    sfm,            \* back end: the stack_frame_manager
    max_parameter_count, \* back end: the local of the layout scan
    riscv,          \* back end: the assembly emitted so far, one instruction per element
    back_pc,        \* back end: <<stage, index>>, the position of the compiler
    reg,            \* target run: the registers
    mem,            \* target run: the words of memory, by byte address
    asm_pc,         \* target run: index in riscv of the next instruction
    at_call,        \* history: at each call executed, <<IR index, registers, memory>>
    sfm_calls,      \* history: the calls made on the stack_frame_manager since clear()
    agg_shape,      \* aggregates: size_hint of the array defined
    agg_input,      \* aggregates: the items of the initializer read so far (history)
    agg_frames,     \* aggregates: the calls of generate_variable_aggregate on the stack
    agg_status,     \* aggregates: "running", "done", "domain_error" or "crash"
    agg_result,     \* aggregates: the flat vector returned, <<>> before
    code_run,       \* aggregates: generate_variable_initialization_code on the same items
    unit,           \* parser: the definitions of the source file, in source order
    ast,            \* parser: the definitions built by the parser's actions, in order
    parse_pos,      \* parser and front end: <<stage, index of the next definition>>
    front_end       \* the compiler process: "running", or how it ended

st_vars == <<table_stack, use_count, names_given, open_log, popped, n_inserts>>
lower_vars == <<counters, koopa>>
walk_vars == <<frames, items_left>>
run_vars == <<expr, env, fold_result, result, phase, run_pc, tmp_val, slot_mem,
              var_mem, executed, call_log, br_log>>

back_vars ==
    <<raw, sfm, max_parameter_count, riscv, back_pc, reg, mem, asm_pc, at_call, sfm_calls>>

\* The variables of the parts of the model written after the front end.
agg_vars == <<agg_shape, agg_input, agg_frames, agg_status, agg_result, code_run>>

parse_vars == <<unit, ast, parse_pos>>

ext_vars == <<back_vars, agg_vars, parse_vars, front_end>>

vars == <<st_vars, lower_vars, walk_vars, run_vars, ext_vars>>

----------------------------------------------------------------------------
(* Bounds of the model.                                                    *)

MaxDepth == 3
MaxInserts == 3
WordBits == 12      \* width of a register of the IR run
MaxLit == 2         \* integer literals and run-time values range over -MaxLit..MaxLit
MaxItems == 4       \* functions and statements of a translation unit

----------------------------------------------------------------------------
(* Strings.                                                                *)

Digit(d) == CASE d = 0 -> "0" [] d = 1 -> "1" [] d = 2 -> "2" [] d = 3 -> "3"
              [] d = 4 -> "4" [] d = 5 -> "5" [] d = 6 -> "6" [] d = 7 -> "7"
              [] d = 8 -> "8" [] d = 9 -> "9"

RECURSIVE to_string(_)
\* std::to_string / fmt "{}" of a non-negative integer: its decimal digits.
to_string(n) == IF n < 10 THEN <<Digit(n)>>
                ELSE to_string(n \div 10) \o <<Digit(n % 10)>>

\* fmt::format("{}_{}", s, n)
format_us(s, n) == s \o <<"_">> \o to_string(n)

\* The raw (source) names the model draws identifiers from.  They are chosen
\* so that one raw name with its suffix spells another raw name, and with
\* two suffixes a third.
RawNames == { <<"x">>, <<"x", "_", "1">>, <<"x", "_", "1", "_", "1">> }

----------------------------------------------------------------------------
(* Symbol table.                                                           *)

EmptyTable == [r \in {} |-> 0]

\* Types (type_system.h).  k is the class: "int" and "void" are
\* type_primary_t, "array" is type_array_t with the lengths dims (outermost
\* first), "pointer" is type_pointer_t to the array with lengths dims (to int
\* when dims is empty), "function" is type_function_t returning ret.
Type(k, dims, ret) == [k |-> k, dims |-> dims, ret |-> ret]
int_type == Type("int", <<>>, "")
NoType == Type("none", <<>>, "")

\* type_base_t::get_base_type: NoType stands for the null pointer.
get_base_type(t) ==
    CASE t.k = "array" ->
             IF Len(t.dims) = 1 THEN int_type ELSE Type("array", Tail(t.dims), "")
      [] t.k = "pointer" ->
             IF Len(t.dims) = 0 THEN int_type ELSE Type("array", t.dims, "")
      [] t.k = "function" -> Type(t.ret, <<>>, "")
      [] OTHER -> NoType

\* a symbol_t as handed to insert: kind is the variant alternative, value the
\* folded value of a scalar const, uid the identity of the inserted object
\* (a history field: the serial number of the insert call, 0 when untracked).
Symbol(kind, type, value, uid) ==
    [kind |-> kind, internal_name |-> <<>>, type |-> type, value |-> value, uid |-> uid]

\* Mutant of use_count_incr: the counter is set, not advanced.
use_count_set(uc, key) == (key :> 1) @@ uc

\* ++use_count[key]: operator[] default-constructs a missing entry to 0.
use_count_incr(uc, key) ==
    IF key \in DOMAIN uc THEN [uc EXCEPT ![key] = @ + 1] ELSE (key :> 1) @@ uc

\* original_internal_name of insert
original_internal_name(raw_name, stack) == format_us(raw_name, Len(stack))

\* The internal name insert() gives a symbol.
internal_name_of(raw_name, kind, stack, uc) ==
    IF kind = "function" THEN raw_name
    ELSE LET key == original_internal_name(raw_name, stack)
         IN  format_us(key, use_count_incr(uc, key)[key])

\* table_stack after insert(raw_name, symbol)
st_insert_stack(stack, uc, raw_name, symbol) ==
    LET named == [symbol EXCEPT !.internal_name =
                      internal_name_of(raw_name, symbol.kind, stack, uc)]
    IN  [stack EXCEPT ![Len(stack)] = (raw_name :> named) @@ stack[Len(stack)]]

\* use_count after insert(raw_name, symbol)
st_insert_count(stack, uc, raw_name, symbol) ==
    IF symbol.kind = "function" THEN uc
    ELSE use_count_incr(uc, original_internal_name(raw_name, stack))

st_push(stack) == Append(stack, EmptyTable)

st_pop(stack) == SubSeq(stack, 1, Len(stack) - 1)

NoSymbol == Symbol("nullopt", NoType, 0, 0)

RECURSIVE at_from(_, _, _)
\* the loop of symbol_table_t::at, from reverse position i down to 1
at_from(stack, raw_name, i) ==
    IF i = 0 THEN NoSymbol
    ELSE IF raw_name \in DOMAIN stack[i] THEN stack[i][raw_name]
    ELSE at_from(stack, raw_name, i - 1)

RECURSIVE at_upto(_, _, _)
at_upto(stack, raw_name, i) ==
    IF i > Len(stack) THEN NoSymbol
    ELSE IF raw_name \in DOMAIN stack[i] THEN stack[i][raw_name]
    ELSE at_upto(stack, raw_name, i + 1)

\* Mutant of st_at: the stack is walked from the outermost table (cbegin).
st_at_outermost(stack, raw_name) == at_upto(stack, raw_name, 1)

st_at(stack, raw_name) == at_from(stack, raw_name, Len(stack))

RECURSIVE is_global_from(_, _, _)
is_global_from(stack, raw_name, i) ==
    IF i = 0 THEN FALSE
    ELSE IF raw_name \in DOMAIN stack[i] THEN i = 1
    ELSE is_global_from(stack, raw_name, i - 1)

st_is_global(stack, raw_name) == is_global_from(stack, raw_name, Len(stack))

----------------------------------------------------------------------------
(* Koopa IR.  The text the code emits is modelled one instruction per      *)
(* line, each a record with the same fields.                               *)

NoLabel == <<>>
NoOperand == [k |-> "none", n |-> 0, s |-> <<>>]
Imm(n) == [k |-> "imm", n |-> n, s |-> <<>>]      \* an integer literal
Tmp(n) == [k |-> "tmp", n |-> n, s |-> <<>>]      \* "%N"
Sym(name) == [k |-> "sym", n |-> 0, s |-> name]   \* "@name"

\* One line of IR: op is the instruction, sub the binary operator or callee,
\* dst the number of the temporary on the left-hand side (0: none), dsym the
\* "@name" on the left-hand side of an alloc, a and b the operands, args the
\* arguments of a call, l1 and l2 the labels named (or, for a label line, l1
\* the label defined).
Ins(op, sub, dst, a, b, args, l1, l2) ==
    [op |-> op, sub |-> sub, dst |-> dst, dsym |-> <<>>, a |-> a, b |-> b,
     args |-> args, l1 |-> l1, l2 |-> l2]

LabelLine(l) == Ins("label", <<>>, 0, NoOperand, NoOperand, <<>>, l, NoLabel)
Br(cond, t, f) == Ins("br", <<>>, 0, cond, NoOperand, <<>>, t, f)
Jump(l) == Ins("jump", <<>>, 0, NoOperand, NoOperand, <<>>, l, NoLabel)
Ret(v) == Ins("ret", <<>>, 0, v, NoOperand, <<>>, NoLabel, NoLabel)
Alloc(dst) == Ins("alloc", <<>>, dst, NoOperand, NoOperand, <<>>, NoLabel, NoLabel)
AllocSym(name) ==
    [Ins("alloc", <<>>, 0, NoOperand, NoOperand, <<>>, NoLabel, NoLabel)
        EXCEPT !.dsym = name]
Store(v, addr) == Ins("store", <<>>, 0, v, addr, <<>>, NoLabel, NoLabel)
Load(dst, addr) == Ins("load", <<>>, dst, addr, NoOperand, <<>>, NoLabel, NoLabel)
Bin(dst, operator_name, x, y) ==
    Ins("bin", <<operator_name>>, dst, x, y, <<>>, NoLabel, NoLabel)
Gep(dst, inst, src, idx) == Ins(inst, <<>>, dst, src, idx, <<>>, NoLabel, NoLabel)
Call(dst, callee, args) ==
    Ins("call", callee, dst, NoOperand, NoOperand, args, NoLabel, NoLabel)

----------------------------------------------------------------------------
(* The process-wide counters of ast.h and the labels minted from them.     *)
(* A minting operator returns the advanced counters c and the minted id.   *)

ZeroCounters ==
    [global_result_id |-> 0, global_sequential_id |-> 0, global_if_id |-> 0,
     global_land_id |-> 0, global_lor_id |-> 0, global_while_id |-> 0]

Minted(c, id) == [c |-> c, id |-> id]

\* Mutant of new_result_id: the counter is advanced after the id is read.
new_result_id_post(c) ==
    Minted([c EXCEPT !.global_result_id = @ + 1], IF c.global_result_id = 0 THEN 1
                                                   ELSE c.global_result_id)
new_result_id(c) ==
    Minted([c EXCEPT !.global_result_id = @ + 1], c.global_result_id + 1)
\* Mutant of new_sequential_id: the counter is read, not advanced.
new_sequential_id_stuck(c) == Minted(c, format_us(<<"seq">>, c.global_sequential_id + 1))
new_sequential_id(c) ==
    Minted([c EXCEPT !.global_sequential_id = @ + 1],
           format_us(<<"seq">>, c.global_sequential_id + 1))
new_if_id(c) ==
    Minted([c EXCEPT !.global_if_id = @ + 1], format_us(<<"if">>, c.global_if_id + 1))
get_else_id(c) == format_us(<<"else">>, c.global_if_id)
new_land_id(c) ==
    Minted([c EXCEPT !.global_land_id = @ + 1],
           format_us(<<"land">>, c.global_land_id + 1))
get_land_sc_id(c) == format_us(<<"land_sc">>, c.global_land_id)
new_lor_id(c) ==
    Minted([c EXCEPT !.global_lor_id = @ + 1], format_us(<<"lor">>, c.global_lor_id + 1))
\* Mutant of get_lor_sc_id: the short-circuit label is the label minted just
\* before it.
get_lor_sc_id_same(c) == format_us(<<"lor">>, c.global_lor_id)
get_lor_sc_id(c) == format_us(<<"lor_sc">>, c.global_lor_id)
new_while_id(c) ==
    Minted([c EXCEPT !.global_while_id = @ + 1],
           format_us(<<"while">>, c.global_while_id + 1))
\* Mutant of get_while_body_id: the label of the loop header is given.
get_while_body_id_header(c) == format_us(<<"while">>, c.global_while_id)
get_while_body_id(c) == format_us(<<"while_body">>, c.global_while_id)

----------------------------------------------------------------------------
(* Expressions.  An AST node is a tuple whose first element is its class:  *)
(*   <<"num", n>>                 ast_primary_expression_2_t               *)
(*   <<"lval", raw_name, indices>> ast_lvalue_t                            *)
(*   <<"unary", op, e>>           ast_unary_expression_2_t                 *)
(*   <<"call", raw_name, args>>   ast_unary_expression_3_t                 *)
(*   <<"mul", op, l, r>>  <<"add", op, l, r>>  <<"rel", op, l, r>>         *)
(*   <<"eq", op, l, r>>           the *_expression_2_t of each level       *)
(*   <<"land", l, r>>  <<"lor", l, r>>                                     *)
(* The pass-through nodes (ast_expression_t, parentheses, the              *)
(* *_expression_1_t of each level) hand get_inline_number and the result   *)
(* id of their only child on unchanged and have no node of their own.      *)

Num(n) == <<"num", n>>
LVal(raw_name, indices) == <<"lval", raw_name, indices>>
Unary(op, e) == <<"unary", op, e>>
CallExp(raw_name, args) == <<"call", raw_name, args>>
Binary(class, op, l, r) == <<class, op, l, r>>
LAnd(l, r) == <<"land", l, r>>
LOr(l, r) == <<"lor", l, r>>

\* std::optional<int>.  Undefined stands for a fold whose C++ evaluation has
\* undefined behaviour (integer division by zero).
Some(v) == [k |-> "some", v |-> v]
NullOpt == [k |-> "nullopt", v |-> 0]
Undefined == [k |-> "undefined", v |-> 0]

Abs(n) == IF n < 0 THEN -n ELSE n
Bool(b) == IF b THEN 1 ELSE 0

\* C++ integer division and remainder: the quotient is truncated towards
\* zero and (a/b)*b + a%b = a.
cpp_div(a, b) == IF (a < 0) = (b < 0) THEN Abs(a) \div Abs(b) ELSE -(Abs(a) \div Abs(b))
cpp_mod(a, b) == a - cpp_div(a, b) * b

\* The switch of get_inline_number of the two-operand nodes, on the values
\* of the operands.
fold_multiply(op, v1, v2) ==
    CASE op = "*" -> Some(v1 * v2)
      [] op = "/" -> IF v2 = 0 THEN Undefined ELSE Some(cpp_div(v1, v2))
      [] op = "%" -> IF v2 = 0 THEN Undefined ELSE Some(cpp_mod(v1, v2))
      [] OTHER -> NullOpt

fold_add(op, v1, v2) ==
    CASE op = "+" -> Some(v1 + v2)
      [] op = "-" -> Some(v1 - v2)
      [] OTHER -> NullOpt

fold_relation(op, v1, v2) ==
    CASE op = "<" -> Some(Bool(v1 < v2))
      [] op = ">" -> Some(Bool(v1 > v2))
      [] op = "<=" -> Some(Bool(v1 <= v2))
      [] op = ">=" -> Some(Bool(v1 >= v2))
      [] OTHER -> NullOpt

fold_equation(op, v1, v2) ==
    CASE op = "==" -> Some(Bool(v1 = v2))
      [] op = "!=" -> Some(Bool(v1 # v2))
      [] OTHER -> NullOpt

\* get_inline_number of a node once get_inline_number of its operands has
\* returned rvalue (rvalue_1, rvalue_2): an operand that does not fold is
\* handed on, else the operator is applied.
fold_unary(op, rvalue) ==
    IF rvalue.k # "some" THEN rvalue
    ELSE CASE op = "+" -> Some(rvalue.v)
           [] op = "-" -> Some(-rvalue.v)
           [] op = "!" -> Some(Bool(rvalue.v = 0))
           [] OTHER -> NullOpt

fold_binary(class, op, rvalue_1, rvalue_2) ==
    IF rvalue_1.k # "some" THEN rvalue_1
    ELSE IF rvalue_2.k # "some" THEN rvalue_2
    ELSE CASE class = "mul" -> fold_multiply(op, rvalue_1.v, rvalue_2.v)
           [] class = "add" -> fold_add(op, rvalue_1.v, rvalue_2.v)
           [] class = "rel" -> fold_relation(op, rvalue_1.v, rvalue_2.v)
           [] class = "eq" -> fold_equation(op, rvalue_1.v, rvalue_2.v)

fold_land(rvalue_1, rvalue_2) ==
    IF rvalue_1.k # "some" THEN rvalue_1
    ELSE IF rvalue_1.v = 0 THEN Some(0)
    ELSE IF rvalue_2.k # "some" THEN rvalue_2
    ELSE Some(Bool(rvalue_1.v # 0 /\ rvalue_2.v # 0))

fold_lor(rvalue_1, rvalue_2) ==
    IF rvalue_1.k # "some" THEN rvalue_1
    ELSE IF rvalue_1.v # 0 THEN Some(1)
    ELSE IF rvalue_2.k # "some" THEN rvalue_2
    ELSE Some(Bool(rvalue_1.v # 0 \/ rvalue_2.v # 0))

\* ast_lvalue_t::get_inline_number
lvalue_inline_number(raw_name, stack) ==
    LET symbol == st_at(stack, raw_name)
    IN  IF symbol.kind = "nullopt" THEN NullOpt
        ELSE IF symbol.kind # "const" THEN NullOpt
        ELSE IF get_base_type(symbol.type).k # "none" THEN NullOpt
        ELSE Some(symbol.value)

RECURSIVE get_inline_number(_, _)
get_inline_number(e, stack) ==
    CASE e[1] = "num" -> Some(e[2])
      [] e[1] = "lval" -> lvalue_inline_number(e[2], stack)
      [] e[1] = "call" -> NullOpt
      [] e[1] = "unary" -> fold_unary(e[2], get_inline_number(e[3], stack))
      [] e[1] \in {"mul", "add", "rel", "eq"} ->
            fold_binary(e[1], e[2], get_inline_number(e[3], stack),
                        get_inline_number(e[4], stack))
      [] e[1] = "land" ->
            fold_land(get_inline_number(e[2], stack), get_inline_number(e[3], stack))
      [] e[1] = "lor" ->
            fold_lor(get_inline_number(e[2], stack), get_inline_number(e[3], stack))

----------------------------------------------------------------------------
(* to_koopa of the expression nodes.  A lowering takes the counters c and  *)
(* the symbol table and returns the lines emitted (code), the node's       *)
(* result id (id, 0 when none was assigned) and the advanced counters (c). *)
(* An operand is lowered from the counters the lowering before it left, so *)
(* the lowering of a node is a chain of operators, each taking what was    *)
(* lowered so far and lowering the next operand.                           *)

Lowered(code, id, c) == [code |-> code, id |-> id, c |-> c]

\* Mutant of unary_operator_name: `!` lowers to ne.
unary_operator_name_ne(op) ==
    CASE op = "+" -> "add" [] op = "-" -> "sub" [] op = "!" -> "ne" [] OTHER -> ""

\* The operator names of the one-instruction nodes.
unary_operator_name(op) ==
    CASE op = "+" -> "add" [] op = "-" -> "sub" [] op = "!" -> "eq" [] OTHER -> ""

binary_operator_name(op) ==
    CASE op = "*" -> "mul" [] op = "/" -> "div" [] op = "%" -> "mod"
      [] op = "+" -> "add" [] op = "-" -> "sub"
      [] op = "<" -> "lt" [] op = ">" -> "gt" [] op = "<=" -> "le" [] op = ">=" -> "ge"
      [] op = "==" -> "eq" [] op = "!=" -> "ne" [] OTHER -> ""

RECURSIVE to_koopa(_, _, _), operand_of(_, _, _), arguments_of(_, _, _, _),
          index_chain(_, _, _, _, _, _)

\* "%result_id" of a lowered node as an operand.
result_operand(sub) == Lowered(sub.code, Tmp(sub.id), sub.c)

\* The pattern every consumer of an expression repeats, const_value being
\* what get_inline_number returned: the inline number when the expression
\* folds, else its lowering and "%result_id".  The id field of the result is
\* the operand.
inline_or_result(const_value, e, c, stack) ==
    IF const_value.k = "some" THEN Lowered(<<>>, Imm(const_value.v), c)
    ELSE result_operand(to_koopa(e, c, stack))

operand_of(e, c, stack) == inline_or_result(get_inline_number(e, stack), e, c, stack)

\* The two operands of a two-operand node, the left one first.
second_operand(operand_0, r, stack) ==
    [operand_0 |-> operand_0, operand_1 |-> operand_of(r, operand_0.c, stack)]

operands_of(l, r, c, stack) == second_operand(operand_of(l, c, stack), r, stack)

\* The argument loop of ast_unary_expression_3_t::to_koopa from argument i:
\* id is the sequence of argument operands.
argument_list(first, rest) ==
    Lowered(first.code \o rest.code, <<first.id>> \o rest.id, rest.c)

arguments_after(first, args, i, stack) ==
    argument_list(first, arguments_of(args, i + 1, first.c, stack))

arguments_of(args, i, c, stack) ==
    IF i > Len(args) THEN Lowered(<<>>, <<>>, c)
    ELSE arguments_after(operand_of(args[i], c, stack), args, i, stack)

\* The load the index loop emits first when current_type is a pointer.
pointer_load(current_type, c) ==
    IF current_type.k = "pointer" THEN new_result_id(c) ELSE Minted(c, 0)

\* One round of the index loop, idx being the lowered index: id is
\* current_source after the round, type current_type.
index_round(current_source, current_type, c, idx) ==
    LET getptr == current_type.k = "pointer"
        inst == IF getptr THEN "getptr" ELSE "getelemptr"
        ld == pointer_load(current_type, c)
        ld_code == IF getptr THEN <<Load(ld.id, current_source)>> ELSE <<>>
        source == IF getptr THEN Tmp(ld.id) ELSE current_source
        cur == new_result_id(idx.c)
    IN  [code |-> ld_code \o idx.code \o <<Gep(cur.id, inst, source, idx.id)>>,
         id |-> Tmp(cur.id), c |-> cur.c, type |-> get_base_type(current_type)]

index_rounds(round, rest) ==
    [code |-> round.code \o rest.code, id |-> rest.id, c |-> rest.c, type |-> rest.type]

index_after(round, indices, i, stack) ==
    index_rounds(round, index_chain(indices, i + 1, round.id, round.type, round.c, stack))

\* The index loop of ast_lvalue_t::to_koopa and ast_statement_2_t::to_koopa
\* from index i: id is current_source after the loop, type current_type.
index_chain(indices, i, current_source, current_type, c, stack) ==
    IF i > Len(indices)
    THEN [code |-> <<>>, id |-> current_source, c |-> c, type |-> current_type]
    ELSE index_after(index_round(current_source, current_type, c,
                                 operand_of(indices[i], pointer_load(current_type, c).c,
                                            stack)),
                     indices, i, stack)

\* The last line of ast_lvalue_t::to_koopa, after the index loop.
lvalue_result(chain) ==
    LET res == new_result_id(chain.c)
        last == IF get_base_type(chain.type).k # "none" /\ chain.type.k = "array"
                THEN Gep(res.id, "getelemptr", chain.id, Imm(0))
                ELSE Load(res.id, chain.id)
    IN  Lowered(chain.code \o <<last>>, res.id, res.c)

\* ast_lvalue_t::to_koopa (the variable and the const branch emit the same)
lvalue_to_koopa(raw_name, indices, c, stack) ==
    LET symbol == st_at(stack, raw_name)
    IN  lvalue_result(index_chain(indices, 1, Sym(symbol.internal_name), symbol.type,
                                  c, stack))

\* The call line of ast_unary_expression_3_t::to_koopa, after the arguments.
call_instruction(symbol, args) ==
    LET res == IF symbol.type.ret # "void" THEN new_result_id(args.c)
               ELSE Minted(args.c, 0)
    IN  Lowered(args.code \o <<Call(res.id, symbol.internal_name, args.id)>>,
                res.id, res.c)

\* ast_unary_expression_3_t::to_koopa
call_to_koopa(function_raw_name, arguments, c, stack) ==
    call_instruction(st_at(stack, function_raw_name), arguments_of(arguments, 1, c, stack))

unary_instruction(op, operand) ==
    LET res == new_result_id(operand.c)
    IN  Lowered(operand.code \o
                  <<Bin(res.id, unary_operator_name(op), Imm(0), operand.id)>>,
                res.id, res.c)

\* ast_unary_expression_2_t::to_koopa
unary_to_koopa(op, e, c, stack) == unary_instruction(op, operand_of(e, c, stack))

binary_instruction(op, operands) ==
    LET operand_0 == operands.operand_0
        operand_1 == operands.operand_1
        res == new_result_id(operand_1.c)
    IN  Lowered(operand_0.code \o operand_1.code \o
                  <<Bin(res.id, binary_operator_name(op), operand_0.id, operand_1.id)>>,
                res.id, res.c)

\* to_koopa of ast_multiply_expression_2_t, ast_add_expression_2_t,
\* ast_relation_expression_2_t and ast_equation_expression_2_t
binary_to_koopa(op, l, r, c, stack) == binary_instruction(op, operands_of(l, r, c, stack))

\* The lines ast_land_expression_2_t::to_koopa and
\* ast_lor_expression_2_t::to_koopa emit between the label of the branch that
\* evaluates the right operand and the label of the short-circuit branch.
evaluate_branch(operator_name, operand_0, operand_1, temp_result_id, next, c) ==
    LET bool_value_0 == new_result_id(c)
        bool_value_1 == new_result_id(bool_value_0.c)
        bool_result == new_result_id(bool_value_1.c)
    IN  Lowered(<<Bin(bool_value_0.id, "ne", operand_0, Imm(0)),
                  Bin(bool_value_1.id, "ne", operand_1, Imm(0)),
                  Bin(bool_result.id, operator_name, Tmp(bool_value_0.id),
                      Tmp(bool_value_1.id)),
                  Store(Tmp(bool_result.id), Tmp(temp_result_id)),
                  Jump(next)>>,
                bool_result.id, bool_result.c)

\* The lines of ast_land_expression_2_t::to_koopa, the labels minted and the
\* operands lowered.
land_blocks(true_branch, false_branch, next, temp_result_id, operands) ==
    LET operand_0 == operands.operand_0
        operand_1 == operands.operand_1
        evaluate == evaluate_branch("and", operand_0.id, operand_1.id,
                                    temp_result_id, next, operand_1.c)
        res == new_result_id(evaluate.c)
    IN  Lowered(<<Alloc(temp_result_id), Store(Imm(1), Tmp(temp_result_id))>>
                  \o operand_0.code
                  \o <<Br(operand_0.id, true_branch, false_branch),
                       LabelLine(true_branch)>>
                  \o operand_1.code \o evaluate.code
                  \o <<LabelLine(false_branch),
                       Store(Imm(0), Tmp(temp_result_id)), Jump(next),
                       LabelLine(next), Load(res.id, Tmp(temp_result_id))>>,
                res.id, res.c)

\* ast_land_expression_2_t::to_koopa
land_to_koopa(l, r, c, stack) ==
    LET true_branch == new_land_id(c)
        false_branch == get_land_sc_id(true_branch.c)
        next == new_sequential_id(true_branch.c)
        temp_result_id == new_result_id(next.c)
    IN  land_blocks(true_branch.id, false_branch, next.id, temp_result_id.id,
                    operands_of(l, r, temp_result_id.c, stack))

\* The lines of ast_lor_expression_2_t::to_koopa, the labels minted and the
\* operands lowered.
lor_blocks(true_branch, false_branch, next, temp_result_id, operands) ==
    LET operand_0 == operands.operand_0
        operand_1 == operands.operand_1
        evaluate == evaluate_branch("or", operand_0.id, operand_1.id,
                                    temp_result_id, next, operand_1.c)
        res == new_result_id(evaluate.c)
    IN  Lowered(<<Alloc(temp_result_id), Store(Imm(0), Tmp(temp_result_id))>>
                  \o operand_0.code
                  \o <<Br(operand_0.id, true_branch, false_branch),
                       LabelLine(false_branch)>>
                  \o operand_1.code \o evaluate.code
                  \o <<LabelLine(true_branch),
                       Store(Imm(1), Tmp(temp_result_id)), Jump(next),
                       LabelLine(next), Load(res.id, Tmp(temp_result_id))>>,
                res.id, res.c)

\* ast_lor_expression_2_t::to_koopa; the id assigned first is overwritten by
\* the assign_result_id() before the final load.
lor_to_koopa(l, r, c, stack) ==
    LET first_id == new_result_id(c)
        false_branch == new_lor_id(first_id.c)
        true_branch == get_lor_sc_id(false_branch.c)
        next == new_sequential_id(false_branch.c)
        temp_result_id == new_result_id(next.c)
    IN  lor_blocks(true_branch, false_branch.id, next.id, temp_result_id.id,
                   operands_of(l, r, temp_result_id.c, stack))

to_koopa(e, c, stack) ==
    CASE e[1] = "num" -> Lowered(<<>>, 0, c)
      [] e[1] = "lval" -> lvalue_to_koopa(e[2], e[3], c, stack)
      [] e[1] = "call" -> call_to_koopa(e[2], e[3], c, stack)
      [] e[1] = "unary" -> unary_to_koopa(e[2], e[3], c, stack)
      [] e[1] \in {"mul", "add", "rel", "eq"} -> binary_to_koopa(e[2], e[3], e[4], c, stack)
      [] e[1] = "land" -> land_to_koopa(e[2], e[3], c, stack)
      [] e[1] = "lor" -> lor_to_koopa(e[2], e[3], c, stack)

----------------------------------------------------------------------------
(* The values the variables of a part of the model keep while a            *)
(* specification of another part runs.                                     *)

STIdle ==
    /\ names_given = <<>>
    /\ open_log = <<>>
    /\ popped = {}
    /\ n_inserts = 0

LowerIdle ==
    /\ counters = ZeroCounters
    /\ koopa = <<>>

WalkIdle ==
    /\ frames = <<>>
    /\ items_left = 0

RunIdle ==
    /\ expr = <<>>
    /\ env = EmptyTable
    /\ fold_result = NullOpt
    /\ result = NoOperand
    /\ phase = "idle"
    /\ run_pc = 0
    /\ tmp_val = EmptyTable
    /\ slot_mem = EmptyTable
    /\ var_mem = EmptyTable
    /\ executed = {}
    /\ call_log = <<>>
    /\ br_log = <<>>

BackIdle ==
    /\ raw = <<>>
    /\ sfm = <<>>
    /\ max_parameter_count = 0
    /\ riscv = <<>>
    /\ back_pc = <<"idle", 0>>
    /\ reg = <<>>
    /\ mem = <<>>
    /\ asm_pc = 0
    /\ at_call = <<>>
    /\ sfm_calls = <<>>

AggIdle ==
    /\ agg_shape = <<>>
    /\ agg_input = <<>>
    /\ agg_frames = <<>>
    /\ agg_status = "idle"
    /\ agg_result = <<>>
    /\ code_run = <<>>

ParseIdle ==
    /\ unit = <<>>
    /\ ast = <<>>
    /\ parse_pos = <<"idle", 0>>

FrontIdle == front_end = "running"

ExtIdle ==
    /\ BackIdle
    /\ AggIdle
    /\ ParseIdle
    /\ FrontIdle

----------------------------------------------------------------------------
(* The symbol table driven by any sequence of push, pop and insert.        *)

InitST ==
    /\ table_stack = <<EmptyTable>>
    /\ use_count = EmptyTable
    /\ names_given = <<>>
    /\ open_log = << <<>> >>
    /\ popped = {}
    /\ n_inserts = 0
    /\ LowerIdle
    /\ WalkIdle
    /\ RunIdle
    /\ ExtIdle

Push ==
    /\ Len(table_stack) < MaxDepth
    /\ table_stack' = st_push(table_stack)
    /\ open_log' = Append(open_log, <<>>)
    /\ UNCHANGED <<use_count, names_given, popped, n_inserts, lower_vars, walk_vars, ext_vars, run_vars>>

\* The lowering never pops the outermost table: every pop follows a push.
Pop ==
    /\ Len(table_stack) > 1
    /\ table_stack' = st_pop(table_stack)
    /\ popped' = popped \cup
           { open_log[Len(open_log)][i][2] : i \in 1..Len(open_log[Len(open_log)]) }
    /\ open_log' = SubSeq(open_log, 1, Len(open_log) - 1)
    /\ UNCHANGED <<use_count, names_given, n_inserts, lower_vars, walk_vars, ext_vars, run_vars>>

Insert ==
    /\ n_inserts < MaxInserts
    /\ \E raw_name \in RawNames, kind \in {"const", "variable", "function"} :
         LET symbol == Symbol(kind, int_type, 0, n_inserts + 1)
             stack2 == st_insert_stack(table_stack, use_count, raw_name, symbol)
             stored == stack2[Len(stack2)][raw_name]
         IN  /\ table_stack' = stack2
             /\ use_count' = st_insert_count(table_stack, use_count, raw_name, symbol)
             /\ names_given' = IF kind = "function" THEN names_given
                               ELSE Append(names_given, stored.internal_name)
             /\ open_log' = [open_log EXCEPT ![Len(open_log)] =
                                 Append(@, <<raw_name, stored>>)]
             /\ n_inserts' = n_inserts + 1
             /\ UNCHANGED <<popped, lower_vars, walk_vars, ext_vars, run_vars>>

NextST == Push \/ Pop \/ Insert

SpecST == InitST /\ [][NextST]_vars

----------------------------------------------------------------------------
(* Running Koopa IR.  A binary instruction computes what the RISC-V        *)
(* instructions that the back end emits for it compute.  Registers are     *)
(* two's complement words of WordBits bits; the values of the model stay   *)
(* inside that range, so no result wraps.                                  *)

to_word(x) == x % (2 ^ WordBits)
to_int(w) == IF w >= 2 ^ (WordBits - 1) THEN w - 2 ^ WordBits ELSE w

RECURSIVE bitwise(_, _, _, _)
\* op applied to each of the low n bits of the words a and b
bitwise(op, a, b, n) ==
    IF n = 0 THEN 0
    ELSE LET x == a % 2
             y == b % 2
             bit == CASE op = "and" -> x * y
                      [] op = "or" -> IF x + y > 0 THEN 1 ELSE 0
                      [] op = "xor" -> (x + y) % 2
         IN  bit + 2 * bitwise(op, a \div 2, b \div 2, n - 1)

rv_bitwise(op, y, z) == to_int(bitwise(op, to_word(y), to_word(z), WordBits))
rv_seqz(x) == IF x = 0 THEN 1 ELSE 0
rv_snez(x) == IF x = 0 THEN 0 ELSE 1
rv_slt(y, z) == IF y < z THEN 1 ELSE 0
\* div and rem round towards zero; a zero divisor gives -1 and the dividend.
rv_div(y, z) ==
    IF z = 0 THEN -1
    ELSE LET q == Abs(y) \div Abs(z) IN IF (y < 0) # (z < 0) THEN -q ELSE q
rv_rem(y, z) == IF z = 0 THEN y ELSE y - z * rv_div(y, z)

\* visit(const koopa_raw_binary_t&): reg_x after the switch
koopa_binary(op, y, z) ==
    CASE op = "add" -> to_int(to_word(y + z))
      [] op = "sub" -> to_int(to_word(y - z))
      [] op = "mul" -> to_int(to_word(y * z))
      [] op = "div" -> rv_div(y, z)
      [] op = "mod" -> rv_rem(y, z)
      [] op = "lt" -> rv_slt(y, z)
      [] op = "gt" -> rv_slt(z, y)
      [] op = "le" -> rv_seqz(rv_slt(z, y))
      [] op = "ge" -> rv_seqz(rv_slt(y, z))
      [] op = "eq" -> rv_seqz(rv_bitwise("xor", y, z))
      [] op = "ne" -> rv_snez(rv_bitwise("xor", y, z))
      [] op = "and" -> rv_bitwise("and", y, z)
      [] op = "or" -> rv_bitwise("or", y, z)
      [] op = "xor" -> rv_bitwise("xor", y, z)

\* The index of the line that defines label l (the first, should there be more).
LabelIndex(ir, l) ==
    LET at == { i \in 1..Len(ir) : ir[i].op = "label" /\ ir[i].l1 = l }
    IN  CHOOSE i \in at : \A j \in at : i <= j

\* The run-time value of an operand.
ValueOf(operand) == IF operand.k = "imm" THEN operand.n ELSE tmp_val[operand.n]

----------------------------------------------------------------------------
(* One expression folded, lowered and run.  The symbol table holds the     *)
(* int functions f and g and, in the scope of a function, the int          *)
(* variables x and y.                                                      *)

Lits == (0 - MaxLit)..MaxLit

RunStack ==
    LET fun == Symbol("function", Type("function", <<>>, "int"), 0, 0)
        var == Symbol("variable", int_type, 0, 0)
        s1 == st_insert_stack(<<EmptyTable>>, EmptyTable, <<"f">>, fun)
        s2 == st_push(st_insert_stack(s1, EmptyTable, <<"g">>, fun))
        u1 == st_insert_count(s2, EmptyTable, <<"x">>, var)
        s3 == st_insert_stack(s2, EmptyTable, <<"x">>, var)
    IN  [stack |-> st_insert_stack(s3, u1, <<"y">>, var),
         count |-> st_insert_count(s3, u1, <<"y">>, var)]

\* An operand of the drawn expression: a literal, a nest of unary operators
\* on it, a variable, a call, or a short-circuit operator on both.
OperandShapes == {"lit", "neg", "not", "var", "call", "and", "or"}

Operand(shape, v, var, fn) ==
    CASE shape = "lit" -> Num(v)
      [] shape = "neg" -> Unary("-", Num(v))
      [] shape = "not" -> Unary("!", Unary("+", Num(v)))
      [] shape = "var" -> LVal(var, <<>>)
      [] shape = "call" -> CallExp(fn, <<>>)
      [] shape = "and" -> LAnd(LVal(var, <<>>), CallExp(fn, <<>>))
      [] shape = "or" -> LOr(CallExp(fn, <<>>), LVal(var, <<>>))

BinaryOps ==
    { <<"mul", "*">>, <<"mul", "/">>, <<"mul", "%">>, <<"add", "+">>, <<"add", "-">>,
      <<"rel", "<">>, <<"rel", ">">>, <<"rel", "<=">>, <<"rel", ">=">>,
      <<"eq", "==">>, <<"eq", "!=">> }

InitRun ==
    /\ table_stack = RunStack.stack
    /\ use_count = RunStack.count
    /\ STIdle
    /\ LowerIdle
    /\ WalkIdle
    /\ ExtIdle
    /\ \E sa \in OperandShapes, sb \in OperandShapes, va \in Lits, vb \in Lits :
         LET a == Operand(sa, va, <<"x">>, <<"f">>)
             b == Operand(sb, vb, <<"y">>, <<"g">>)
         IN  /\ \/ \E o \in BinaryOps : expr = Binary(o[1], o[2], a, b)
                \/ expr = LAnd(a, b)
                \/ expr = LOr(a, b)
                \/ \E op \in {"+", "-", "!"} : sb = "lit" /\ vb = 0 /\ expr = Unary(op, a)
             /\ env = (<<"f">> :> va) @@ (<<"g">> :> vb)
             /\ var_mem = (<<"x", "_", "2", "_", "1">> :> va)
                            @@ (<<"y", "_", "2", "_", "1">> :> vb)
    /\ fold_result = NullOpt
    /\ result = NoOperand
    /\ phase = "parsed"
    /\ run_pc = 0
    /\ tmp_val = EmptyTable
    /\ slot_mem = EmptyTable
    /\ executed = {}
    /\ call_log = <<>>
    /\ br_log = <<>>

\* What evaluating get_inline_number can end in.  A fold with undefined
\* behaviour (a zero divisor) ends as the build makes it end: the division
\* traps and the process dies, or it yields some value and folding goes on.
FoldOutcomes(r) ==
    IF r.k = "undefined" THEN {[k |-> "trap", v |-> 0], Some(0), Some(-1)} ELSE {r}

\* A consumer asks the expression for its inline number.
Fold ==
    /\ phase = "parsed"
    /\ \E outcome \in FoldOutcomes(get_inline_number(expr, table_stack)) :
         /\ fold_result' = outcome
         /\ phase' = IF outcome.k = "trap" THEN "aborted" ELSE "folded"
    /\ UNCHANGED <<st_vars, lower_vars, walk_vars, ext_vars, expr, env, result, run_pc, tmp_val,
                   slot_mem, var_mem, executed, call_log, br_log>>

\* The lines low and what they leave become the IR to run.
Lower(low, next_phase) ==
    /\ koopa' = low.code
    /\ counters' = low.c
    /\ result' = low.id
    /\ phase' = next_phase
    /\ run_pc' = 1
    /\ UNCHANGED <<st_vars, walk_vars, ext_vars, expr, env, fold_result, tmp_val, slot_mem, var_mem,
                   executed, call_log, br_log>>

\* The consumer goes on as every consumer in ast.h does: with the inline
\* number when there is one, else with the lowering of the expression.
LowerUse ==
    /\ phase = "folded"
    /\ Lower(inline_or_result(fold_result, expr, counters, table_stack), "used")

\* to_koopa of the node itself, whether or not the expression folds.
LowerNode ==
    /\ phase = "folded"
    /\ Lower(result_operand(to_koopa(expr, counters, table_stack)), "lowered")

Running == phase \in {"used", "lowered"} /\ run_pc \in 1..Len(koopa)
Finished == phase \in {"used", "lowered"} /\ run_pc = Len(koopa) + 1

\* The instruction at run_pc is executed.
Step ==
    /\ Running
    /\ LET i == koopa[run_pc]
           set_tmp(v) == tmp_val' = (i.dst :> v) @@ tmp_val
       IN  /\ executed' = executed \cup {run_pc}
           /\ CASE i.op = "label" ->
                     /\ run_pc' = run_pc + 1
                     /\ UNCHANGED <<tmp_val, slot_mem, var_mem, call_log, br_log>>
                [] i.op = "alloc" ->
                     /\ set_tmp(i.dst)
                     /\ run_pc' = run_pc + 1
                     /\ UNCHANGED <<slot_mem, var_mem, call_log, br_log>>
                [] i.op = "store" ->
                     /\ IF i.b.k = "sym"
                        THEN /\ var_mem' = [var_mem EXCEPT ![i.b.s] = ValueOf(i.a)]
                             /\ UNCHANGED slot_mem
                        ELSE /\ slot_mem' = (ValueOf(i.b) :> ValueOf(i.a)) @@ slot_mem
                             /\ UNCHANGED var_mem
                     /\ run_pc' = run_pc + 1
                     /\ UNCHANGED <<tmp_val, call_log, br_log>>
                [] i.op = "load" ->
                     /\ set_tmp(IF i.a.k = "sym" THEN var_mem[i.a.s]
                                ELSE slot_mem[ValueOf(i.a)])
                     /\ run_pc' = run_pc + 1
                     /\ UNCHANGED <<slot_mem, var_mem, call_log, br_log>>
                [] i.op = "bin" ->
                     /\ set_tmp(koopa_binary(i.sub[1], ValueOf(i.a), ValueOf(i.b)))
                     /\ run_pc' = run_pc + 1
                     /\ UNCHANGED <<slot_mem, var_mem, call_log, br_log>>
                [] i.op = "call" ->
                     /\ set_tmp(env[i.sub])
                     /\ call_log' = Append(call_log, i.sub)
                     /\ run_pc' = run_pc + 1
                     /\ UNCHANGED <<slot_mem, var_mem, br_log>>
                [] i.op = "br" ->
                     /\ run_pc' = LabelIndex(koopa, IF ValueOf(i.a) # 0 THEN i.l1 ELSE i.l2)
                     /\ br_log' = Append(br_log, <<run_pc, ValueOf(i.a)>>)
                     /\ UNCHANGED <<tmp_val, slot_mem, var_mem, call_log>>
                [] i.op = "jump" ->
                     /\ run_pc' = LabelIndex(koopa, i.l1)
                     /\ UNCHANGED <<tmp_val, slot_mem, var_mem, call_log, br_log>>
    /\ UNCHANGED <<st_vars, lower_vars, walk_vars, ext_vars, expr, env, fold_result, result, phase>>

NextRun == Fold \/ LowerUse \/ LowerNode \/ Step

SpecRun == InitRun /\ [][NextRun]_vars

----------------------------------------------------------------------------
(* to_koopa of declarations and statements.  A statement that holds        *)
(* statements is lowered in pieces: the lines up to its first child, and   *)
(* the lines after each child.                                             *)

\* Further lines of IR: the header of a function (l1 holds the return
\* type), its closing brace, and the declaration of a library function.
Fun(name, ret) == Ins("fun", name, 0, NoOperand, NoOperand, <<>>, <<ret>>, NoLabel)
End == Ins("end", <<>>, 0, NoOperand, NoOperand, <<>>, NoLabel, NoLabel)
Decl(name) == Ins("decl", name, 0, NoOperand, NoOperand, <<>>, NoLabel, NoLabel)

FunctionSymbol(ret) == Symbol("function", Type("function", <<>>, ret), 0, 0)

\* lib_functions of ast_program_t::to_koopa, in order, with the return type.
lib_functions ==
    << <<"getint", "int">>, <<"getch", "int">>, <<"getarray", "int">>,
       <<"putint", "void">>, <<"putch", "void">>, <<"putarray", "void">>,
       <<"starttime", "void">>, <<"stoptime", "void">> >>

RECURSIVE program_table(_, _)
\* The symbol table after the first i library functions are inserted.
program_table(stack, i) ==
    IF i = 0 THEN stack
    ELSE st_insert_stack(program_table(stack, i - 1), EmptyTable,
                         <<lib_functions[i][1]>>, FunctionSymbol(lib_functions[i][2]))

\* The operand a return statement returns; expression <<>> is `return;`
return_value(expression, c, stack) ==
    IF expression = <<>> THEN Lowered(<<>>, NoOperand, c)
    ELSE operand_of(expression, c, stack)

\* Mutant of return_instruction: the fresh label is emitted before the ret.
return_instruction_label_first(value) ==
    LET seq == new_sequential_id(value.c)
    IN  Lowered(value.code \o <<LabelLine(seq.id), Ret(value.id)>>, 0, seq.c)

\* Mutant of return_instruction: no fresh label follows the ret.
return_instruction_no_label(value) ==
    Lowered(value.code \o <<Ret(value.id)>>, 0, value.c)

\* The ret of ast_statement_1_t::to_koopa and the fresh label after it.
return_instruction(value) ==
    LET seq == new_sequential_id(value.c)
    IN  Lowered(value.code \o <<Ret(value.id), LabelLine(seq.id)>>, 0, seq.c)

\* ast_statement_1_t::to_koopa
return_to_koopa(expression, c, stack) ==
    return_instruction(return_value(expression, c, stack))

\* The store of ast_statement_2_t::to_koopa, after the index loop.
assignment_store(holder, chain) ==
    Lowered(holder.code \o chain.code \o <<Store(holder.id, chain.id)>>, 0, chain.c)

\* The index loop of ast_statement_2_t::to_koopa, after the expression.
assignment_target(holder, raw_name, indices, stack) ==
    LET symbol == st_at(stack, raw_name)
    IN  assignment_store(holder,
                         index_chain(indices, 1, Sym(symbol.internal_name), symbol.type,
                                     holder.c, stack))

\* ast_statement_2_t::to_koopa
assignment_to_koopa(raw_name, indices, expression, c, stack) ==
    assignment_target(operand_of(expression, c, stack), raw_name, indices, stack)

\* ast_statement_7_t::to_koopa and ast_statement_8_t::to_koopa
jump_to_koopa(target, c) ==
    LET seq == new_sequential_id(c)
    IN  Lowered(<<Jump(target), LabelLine(seq.id)>>, 0, seq.c)

\* The br of ast_statement_5_t::to_koopa and the label of the if branch, the
\* labels minted and the condition lowered.  The result carries the three
\* labels.
if_branch(if_id, else_id, next, has_else, cond) ==
    [code |-> cond.code \o
                <<Br(cond.id, if_id, IF has_else THEN else_id ELSE next),
                  LabelLine(if_id)>>,
     c |-> cond.c, id |-> if_id, else_id |-> else_id, next |-> next]

\* ast_statement_5_t::to_koopa up to the if branch.
if_to_koopa(condition, has_else, c, stack) ==
    LET if_id == new_if_id(c)
        else_id == get_else_id(if_id.c)
        next == new_sequential_id(if_id.c)
    IN  if_branch(if_id.id, else_id, next.id, has_else,
                  operand_of(condition, next.c, stack))

\* The header of ast_statement_6_t::to_koopa and the label of the body, the
\* labels minted and the condition lowered.
while_branch(while_id, while_body_id, next, cond) ==
    [code |-> <<Jump(while_id), LabelLine(while_id)>> \o cond.code \o
                <<Br(cond.id, while_body_id, next), LabelLine(while_body_id)>>,
     c |-> cond.c, id |-> while_id, else_id |-> NoLabel, next |-> next]

\* ast_statement_6_t::to_koopa up to the while branch.
while_to_koopa(condition, c, stack) ==
    LET while_id == new_while_id(c)
        while_body_id == get_while_body_id(while_id.c)
        next == new_sequential_id(while_id.c)
    IN  while_branch(while_id.id, while_body_id, next.id,
                     operand_of(condition, next.c, stack))

RECURSIVE flatten_from(_, _, _, _)
\* the second loop of flatten_to_indices from dimension i
flatten_from(flatten_index, part_size, size_hint, i) ==
    IF i > Len(size_hint) THEN <<flatten_index>>
    ELSE <<flatten_index \div part_size>> \o
         flatten_from(flatten_index % part_size, part_size \div size_hint[i],
                      size_hint, i + 1)

RECURSIVE Product(_, _)
Product(size_hint, i) ==
    IF i > Len(size_hint) THEN 1 ELSE size_hint[i] * Product(size_hint, i + 1)

flatten_to_indices(flatten_index, size_hint) ==
    flatten_from(flatten_index, Product(size_hint, 2), size_hint, 2)

RECURSIVE element_address(_, _, _, _)
\* The getelemptr loop of generate_variable_initialization_code from index i.
element_address(current_source, indices, i, c) ==
    IF i > Len(indices) THEN Lowered(<<>>, current_source, c)
    ELSE LET current_id == new_result_id(c)
             rest == element_address(Tmp(current_id.id), indices, i + 1, current_id.c)
         IN  Lowered(<<Gep(current_id.id, "getelemptr", current_source, Imm(indices[i]))>>
                       \o rest.code, rest.id, rest.c)

\* One element of the array stored, holder being the lowered value: the
\* lines of the value, the address, then the store.
store_element(internal_name, holder, size_hint, base_count) ==
    LET address == element_address(Sym(internal_name),
                                   flatten_to_indices(base_count, size_hint), 1, holder.c)
    IN  Lowered(holder.code \o address.code \o <<Store(holder.id, address.id)>>,
                0, address.c)

RECURSIVE initialization_code(_, _, _, _, _, _, _)

initialization_rounds(stored, rest) == Lowered(stored.code \o rest.code, 0, rest.c)

initialization_after(stored, internal_name, values, i, size_hint, stack, whole_size) ==
    initialization_rounds(stored,
                          initialization_code(internal_name, values, i + 1, size_hint,
                                              stored.c, stack, whole_size))

\* The value stored in element i: the expression of the list, or the zero
\* of the fill.
element_value(values, i, c, stack) ==
    IF i <= Len(values) THEN operand_of(values[i], c, stack)
    ELSE Lowered(<<>>, Imm(0), c)

\* generate_variable_initialization_code for a list of expressions (no list
\* nested in it): the loop over the list from value i, then the zero fill.
\* current_index and base_count both stand at i - 1.
initialization_code(internal_name, values, i, size_hint, c, stack, whole_size) ==
    IF i > Len(values) /\ i > whole_size THEN Lowered(<<>>, 0, c)
    ELSE initialization_after(store_element(internal_name,
                                            element_value(values, i, c, stack),
                                            size_hint, i - 1),
                              internal_name, values, i, size_hint, stack, whole_size)

\* The alloc of the array, then its initialization.
array_allocated(internal_name, init) ==
    Lowered(<<AllocSym(internal_name)>> \o init.code, 0, init.c)

\* ast_variable_definition_2_t::to_koopa of a local array with such a list;
\* stack is the symbol table after the insert.
array_definition_to_koopa(raw_name, values, c, stack) ==
    LET symbol == st_at(stack, raw_name)
    IN  array_allocated(symbol.internal_name,
                        initialization_code(symbol.internal_name, values, 1,
                                            symbol.type.dims, c, stack,
                                            Product(symbol.type.dims, 1)))

\* A frame of the walk: the statement (or function) being lowered, the
\* labels it minted, and the targets push_down hands to its children.
Frame(kind, ret, labels, has_else, stage, break_target, continue_target) ==
    [kind |-> kind, ret |-> ret, id |-> labels.id, else_id |-> labels.else_id,
     next |-> labels.next, has_else |-> has_else, stage |-> stage,
     break_target |-> break_target, continue_target |-> continue_target]

NoLabels == [id |-> NoLabel, else_id |-> NoLabel, next |-> NoLabel]

RECURSIVE after_child(_, _)
\* The lines the statements on the call stack emit once a child statement
\* has returned, down to the first block (or if statement with an else
\* branch to come) that goes on with a further child.
after_child(fs, code) ==
    LET top == fs[Len(fs)]
        below == SubSeq(fs, 1, Len(fs) - 1)
    IN  CASE top.kind = "if" /\ top.stage = "then" /\ top.has_else ->
                 [frames |-> Append(below, [top EXCEPT !.stage = "else"]),
                  code |-> code \o <<Jump(top.next), LabelLine(top.else_id)>>]
          [] top.kind = "if" ->
                 after_child(below, code \o <<Jump(top.next), LabelLine(top.next)>>)
          [] top.kind = "while" ->
                 after_child(below, code \o <<Jump(top.id), LabelLine(top.next)>>)
          [] OTHER -> [frames |-> fs, code |-> code]

RECURSIVE parameters_to_koopa(_, _, _, _)
\* The second parameter loop of ast_function_t::to_koopa from parameter i:
\* the symbol table, use_count and the lines emitted.
parameters_to_koopa(parameters, i, stack, uc) ==
    IF i > Len(parameters) THEN [stack |-> stack, count |-> uc, code |-> <<>>]
    ELSE LET raw_name == parameters[i][1]
             symbol == Symbol("variable", parameters[i][2], 0, 0)
             stack2 == st_insert_stack(stack, uc, raw_name, symbol)
             internal_name == st_at(stack2, raw_name).internal_name
             rest == parameters_to_koopa(parameters, i + 1, stack2,
                                         st_insert_count(stack, uc, raw_name, symbol))
         IN  [rest EXCEPT !.code = <<AllocSym(internal_name),
                                     Store(Sym(raw_name), Sym(internal_name))>> \o @]

\* Mutant of function_to_koopa: no table is pushed for the parameters.
function_to_koopa_flat(function_name, ret, parameters, stack, uc) ==
    LET inserted == st_insert_stack(stack, uc, function_name, FunctionSymbol(ret))
        params == parameters_to_koopa(parameters, 1, inserted, uc)
    IN  [params EXCEPT !.stack = st_push(@),
                       !.code = <<Fun(function_name, ret),
                                  LabelLine(function_name \o <<"_entry">>)>> \o @]

\* ast_function_t::to_koopa up to the items of the block (the st.push of
\* the block included).
function_to_koopa(function_name, ret, parameters, stack, uc) ==
    LET inserted == st_insert_stack(stack, uc, function_name, FunctionSymbol(ret))
        params == parameters_to_koopa(parameters, 1, st_push(inserted), uc)
    IN  [params EXCEPT !.stack = st_push(@),
                       !.code = <<Fun(function_name, ret),
                                  LabelLine(function_name \o <<"_entry">>)>> \o @]

----------------------------------------------------------------------------
(* A translation unit lowered: ast_program_t::to_koopa walks functions,    *)
(* whose bodies are drawn statement by statement.                          *)

x == LVal(<<"x">>, <<>>)
getint == CallExp(<<"getint">>, <<>>)

\* The parameters of every function drawn: (int x, int a[][2]).
Parameters == << <<<<"x">>, int_type>>, <<<<"a">>, Type("pointer", <<2>>, "")>> >>

\* The expressions the statements are drawn with.
ReturnExpressions == { <<>>, LOr(x, getint) }
IfConditions == { <<FALSE, x>>, <<TRUE, LAnd(x, x)>> }
WhileCondition == LOr(x, Num(0))
AssignIndices == <<LAnd(x, Num(1)), Num(1)>>
CallStatement == CallExp(<<"putint">>, <<LOr(Num(0), x)>>)
ArrayInitializer == <<LOr(x, x)>>

InitWalk ==
    /\ table_stack = program_table(<<EmptyTable>>, Len(lib_functions))
    /\ use_count = EmptyTable
    /\ STIdle
    /\ counters = ZeroCounters
    /\ koopa = [i \in 1..Len(lib_functions) |-> Decl(<<lib_functions[i][1]>>)]
    /\ frames = <<>>
    /\ items_left = MaxItems
    /\ RunIdle
    /\ ExtIdle

Top == frames[Len(frames)]

\* A child statement has returned with the lines code and the counters c.
StatementDone(low) ==
    LET after == after_child(frames, low.code)
    IN  /\ koopa' = koopa \o after.code
        /\ counters' = low.c
        /\ frames' = after.frames

WalkUnchanged == UNCHANGED <<names_given, open_log, popped, n_inserts, run_vars, ext_vars>>

BeginFunction ==
    /\ front_end = "running"
    /\ frames = <<>>
    /\ items_left > 0
    /\ \E ret \in {"int", "void"} :
         LET n == Cardinality({ i \in 1..Len(koopa) : koopa[i].op = "fun" })
             f == function_to_koopa(format_us(<<"f">>, n + 1), ret, Parameters,
                                    table_stack, use_count)
         IN  /\ table_stack' = f.stack
             /\ use_count' = f.count
             /\ koopa' = koopa \o f.code
             /\ frames' = <<Frame("function", ret, NoLabels, FALSE, "", <<>>, <<>>)>>
    /\ items_left' = items_left - 1
    /\ UNCHANGED counters
    /\ WalkUnchanged

\* The block of the function ends: the default ret and the closing brace.
EndFunction ==
    /\ front_end = "running"
    /\ Len(frames) = 1
    /\ table_stack' = st_pop(st_pop(table_stack))
    /\ koopa' = koopa \o <<Ret(IF Top.ret = "void" THEN NoOperand ELSE Imm(0)), End>>
    /\ frames' = <<>>
    /\ UNCHANGED <<use_count, counters, items_left>>
    /\ WalkUnchanged

Return ==
    /\ front_end = "running"
    /\ frames # <<>>
    /\ items_left > 0
    /\ \E expression \in ReturnExpressions :
         StatementDone(return_to_koopa(expression, counters, table_stack))
    /\ items_left' = items_left - 1
    /\ UNCHANGED <<table_stack, use_count>>
    /\ WalkUnchanged

Assign ==
    /\ front_end = "running"
    /\ frames # <<>>
    /\ items_left > 0
    /\ StatementDone(assignment_to_koopa(<<"a">>, AssignIndices, x, counters, table_stack))
    /\ items_left' = items_left - 1
    /\ UNCHANGED <<table_stack, use_count>>
    /\ WalkUnchanged

\* ast_statement_3_t::to_koopa with an expression
ExpressionStatement ==
    /\ front_end = "running"
    /\ frames # <<>>
    /\ items_left > 0
    /\ StatementDone(to_koopa(CallStatement, counters, table_stack))
    /\ items_left' = items_left - 1
    /\ UNCHANGED <<table_stack, use_count>>
    /\ WalkUnchanged

\* ast_statement_3_t::to_koopa without one (`;`), as the branch of an if or while
EmptyStatement ==
    /\ front_end = "running"
    /\ frames # <<>>
    /\ Top.kind \in {"if", "while"}
    /\ StatementDone(Lowered(<<>>, 0, counters))
    /\ UNCHANGED <<table_stack, use_count, items_left>>
    /\ WalkUnchanged

\* A valid program has break and continue inside a loop only.
Break ==
    /\ front_end = "running"
    /\ frames # <<>>
    /\ items_left > 0
    /\ Top.break_target # <<>>
    /\ StatementDone(jump_to_koopa(Top.break_target, counters))
    /\ items_left' = items_left - 1
    /\ UNCHANGED <<table_stack, use_count>>
    /\ WalkUnchanged

Continue ==
    /\ front_end = "running"
    /\ frames # <<>>
    /\ items_left > 0
    /\ Top.continue_target # <<>>
    /\ StatementDone(jump_to_koopa(Top.continue_target, counters))
    /\ items_left' = items_left - 1
    /\ UNCHANGED <<table_stack, use_count>>
    /\ WalkUnchanged

\* `int b[2] = {x || x};` as an item of a block
ArrayDefinition ==
    /\ front_end = "running"
    /\ frames # <<>>
    /\ items_left > 0
    /\ Top.kind \in {"function", "block"}
    /\ LET symbol == Symbol("variable", Type("array", <<2>>, ""), 0, 0)
           stack2 == st_insert_stack(table_stack, use_count, <<"b">>, symbol)
       IN  /\ table_stack' = stack2
           /\ use_count' = st_insert_count(table_stack, use_count, <<"b">>, symbol)
           /\ StatementDone(array_definition_to_koopa(<<"b">>, ArrayInitializer,
                                                      counters, stack2))
    /\ items_left' = items_left - 1
    /\ WalkUnchanged

\* A statement that names y, which no scope declares: `return y;`, `y = 1;` or
\* `y();`.  symbol_table_t::at returns std::nullopt, and ast_lvalue_t::to_koopa,
\* ast_statement_2_t::to_koopa and ast_unary_expression_3_t::to_koopa apply
\* operator* to it unchecked: undefined behaviour.  The builds differ in what
\* follows: the lowering goes on with whatever the empty optional holds
\* ("proceeds", here the fields of NoSymbol), std::get or
\* std::holds_alternative meets a variant index it rejects and the uncaught
\* std::bad_variant_access ends the process through std::terminate
\* ("terminate"), or the read faults ("crash").
AbsentName == <<"y">>

AbsentForms == {"read", "assign", "call"}

DereferenceOutcomes == {"proceeds", "terminate", "crash"}

absent_to_koopa(form, c, stack) ==
    CASE form = "read" -> return_to_koopa(LVal(AbsentName, <<>>), c, stack)
      [] form = "assign" -> assignment_to_koopa(AbsentName, <<>>, Num(1), c, stack)
      [] form = "call" -> to_koopa(CallExp(AbsentName, <<>>), c, stack)

UndeclaredReference ==
    /\ front_end = "running"
    /\ frames # <<>>
    /\ items_left > 0
    /\ st_at(table_stack, AbsentName) = NoSymbol
    /\ \E form \in AbsentForms, outcome \in DereferenceOutcomes :
         IF outcome = "proceeds"
         THEN /\ StatementDone(absent_to_koopa(form, counters, table_stack))
              /\ items_left' = items_left - 1
              /\ UNCHANGED front_end
         ELSE /\ front_end' = outcome
              /\ UNCHANGED <<koopa, counters, frames, items_left>>
    /\ UNCHANGED <<st_vars, run_vars, back_vars, agg_vars, parse_vars>>

\* ast_statement_4_t::to_koopa and ast_block_t::to_koopa up to the items
BeginBlock ==
    /\ front_end = "running"
    /\ frames # <<>>
    /\ items_left > 0
    /\ table_stack' = st_push(table_stack)
    /\ frames' = Append(frames, Frame("block", "", NoLabels, FALSE, "",
                                      Top.break_target, Top.continue_target))
    /\ items_left' = items_left - 1
    /\ UNCHANGED <<use_count, counters, koopa>>
    /\ WalkUnchanged

EndBlock ==
    /\ front_end = "running"
    /\ frames # <<>>
    /\ Top.kind = "block"
    /\ table_stack' = st_pop(table_stack)
    /\ LET after == after_child(SubSeq(frames, 1, Len(frames) - 1), <<>>)
       IN  /\ koopa' = koopa \o after.code
           /\ frames' = after.frames
    /\ UNCHANGED <<use_count, counters, items_left>>
    /\ WalkUnchanged

\* The statement that lowered to low goes on with its first child.
Enter(kind, low, has_else, stage, break_target, continue_target) ==
    /\ koopa' = koopa \o low.code
    /\ counters' = low.c
    /\ frames' = Append(frames, Frame(kind, "", low, has_else, stage,
                                      break_target, continue_target))

BeginIf ==
    /\ front_end = "running"
    /\ frames # <<>>
    /\ items_left > 0
    /\ \E form \in IfConditions :
         Enter("if", if_to_koopa(form[2], form[1], counters, table_stack), form[1],
               "then", Top.break_target, Top.continue_target)
    /\ items_left' = items_left - 1
    /\ UNCHANGED <<table_stack, use_count>>
    /\ WalkUnchanged

\* The body of a while statement breaks to its next label and continues at
\* its header.
\* Mutant of EnterWhile: the two targets are exchanged.
EnterWhileExchanged(low) == Enter("while", low, FALSE, "", low.id, low.next)
EnterWhile(low) == Enter("while", low, FALSE, "", low.next, low.id)

BeginWhile ==
    /\ front_end = "running"
    /\ frames # <<>>
    /\ items_left > 0
    /\ EnterWhile(while_to_koopa(WhileCondition, counters, table_stack))
    /\ items_left' = items_left - 1
    /\ UNCHANGED <<table_stack, use_count>>
    /\ WalkUnchanged

Next ==
    \/ BeginFunction \/ EndFunction
    \/ Return \/ Assign \/ ExpressionStatement \/ EmptyStatement
    \/ Break \/ Continue \/ ArrayDefinition
    \/ BeginBlock \/ EndBlock \/ BeginIf \/ BeginWhile
    \/ UndeclaredReference

Spec == InitWalk /\ [][Next]_vars

----------------------------------------------------------------------------
(* The back end.  A raw program value is identified by the index of its    *)
(* instruction in the function; a value that is no instruction of the      *)
(* function (a parameter) has index 0.                                     *)

\* koopa_raw_type_t
RType(tag, base, len) == [tag |-> tag, base |-> base, len |-> len]
RInt == RType("int32", <<>>, 0)
RUnit == RType("unit", <<>>, 0)
RArray(base, len) == RType("array", base, len)
RPointer(base) == RType("pointer", base, 0)

RECURSIVE get_size(_)
get_size(value) ==
    CASE value.tag = "int32" -> 4
      [] value.tag = "unit" -> 0
      [] value.tag = "array" -> value.len * get_size(value.base)
      [] value.tag = "pointer" -> 4
      [] value.tag = "function" -> 0
      [] OTHER -> 0

\* stack_frame_manager: offsets is the vector (element i of the code is
\* element i + 1 here), variable_to_index the map from values to indices.
sfm_clear ==
    [offsets |-> <<0>>, variable_to_index |-> EmptyTable,
     additional_lower |-> 0, additional_upper |-> 0]

sfm_count(m, variable_id) == variable_id \in DOMAIN m.variable_to_index

\* Mutant of sfm_alloc: a value allocated already is allocated again.
sfm_alloc_again(m, variable_id, size) ==
    [m EXCEPT !.variable_to_index = (variable_id :> Len(m.offsets) - 1) @@ @,
              !.offsets = Append(@, m.offsets[Len(m.offsets)] + size)]

sfm_alloc(m, variable_id, size) ==
    IF sfm_count(m, variable_id) THEN m
    ELSE [m EXCEPT !.variable_to_index = (variable_id :> Len(m.offsets) - 1) @@ @,
                   !.offsets = Append(@, m.offsets[Len(m.offsets)] + size)]

sfm_alloc_lower(m, size) == [m EXCEPT !.additional_lower = size]

sfm_alloc_upper(m, size) == [m EXCEPT !.additional_upper = size]

sfm_offset(m, variable_id) ==
    m.additional_lower + m.offsets[m.variable_to_index[variable_id] + 1]

\* Mutant of sfm_offset_lower: the outgoing arguments are placed above the
\* lower region.
sfm_offset_lower_above(m) == m.additional_lower

sfm_offset_lower(m) == 0

sfm_offset_upper(m) == m.additional_lower + m.offsets[Len(m.offsets)]

sfm_size(m) == m.additional_lower + m.offsets[Len(m.offsets)] + m.additional_upper

\* Mutant of sfm_rounded_size: the size is rounded down.
sfm_rounded_size_down(m) == (sfm_size(m) \div 16) * 16

sfm_rounded_size(m) == ((sfm_size(m) + 16 - 1) \div 16) * 16

\* One instruction of the assembly emitted: rd, rs1 and rs2 are register
\* names, imm the immediate or the offset, sym the callee or the label, at
\* a history field (set when the instruction is emitted).
Asm(op, rd, rs1, rs2, imm, sym) ==
    [op |-> op, rd |-> rd, rs1 |-> rs1, rs2 |-> rs2, imm |-> imm, sym |-> sym, at |-> 0]

Li(rd, imm) == Asm("li", rd, "", "", imm, <<>>)
Lw(rd, imm, rs1) == Asm("lw", rd, rs1, "", imm, <<>>)
Sw(rs2, imm, rs1) == Asm("sw", "", rs1, rs2, imm, <<>>)
Add(rd, rs1, rs2) == Asm("add", rd, rs1, rs2, 0, <<>>)
Sub(rd, rs1, rs2) == Asm("sub", rd, rs1, rs2, 0, <<>>)
Mul(rd, rs1, rs2) == Asm("mul", rd, rs1, rs2, 0, <<>>)
Addi(rd, rs1, imm) == Asm("addi", rd, rs1, "", imm, <<>>)
Mv(rd, rs1) == Asm("mv", rd, rs1, "", 0, <<>>)
CallAsm(callee) == Asm("call", "", "", "", 0, callee)
RetAsm == Asm("ret", "", "", "", 0, <<>>)
LabelAsm(name) == Asm("label", "", "", "", 0, name)

\* register_manager
reg_ret == "a0"
reg_ra == "ra"
reg_x == "t1"
reg_y == "t2"
reg_z == "t3"

\* fmt::format("a{}", i)
argument_register(i) ==
    CASE i = 0 -> "a0" [] i = 1 -> "a1" [] i = 2 -> "a2" [] i = 3 -> "a3"
      [] i = 4 -> "a4" [] i = 5 -> "a5" [] i = 6 -> "a6" [] i = 7 -> "a7"

\* Mutant of generate_load_offset: the offset is not subtracted again.
generate_load_offset_kept(target_reg, temp_reg, offset) ==
    IF -2048 <= offset /\ offset < 2048 THEN <<Lw(target_reg, offset, "sp")>>
    ELSE <<Li(temp_reg, offset), Add("sp", "sp", temp_reg), Lw(target_reg, 0, "sp")>>

\* generate_load(target_reg, temp_reg, int offset)
generate_load_offset(target_reg, temp_reg, offset) ==
    IF -2048 <= offset /\ offset < 2048 THEN <<Lw(target_reg, offset, "sp")>>
    ELSE <<Li(temp_reg, offset), Add("sp", "sp", temp_reg), Lw(target_reg, 0, "sp"),
           Sub("sp", "sp", temp_reg)>>

\* generate_load(target_reg, temp_reg, value) of a value that is no global
generate_load(m, target_reg, temp_reg, value) ==
    generate_load_offset(target_reg, temp_reg, sfm_offset(m, value))

\* generate_store(target_reg, temp_reg, int offset)
generate_store_offset(target_reg, temp_reg, offset) ==
    IF -2048 <= offset /\ offset < 2048 THEN <<Sw(target_reg, offset, "sp")>>
    ELSE <<Li(temp_reg, offset), Add("sp", "sp", temp_reg), Sw(target_reg, 0, "sp"),
           Sub("sp", "sp", temp_reg)>>

\* generate_store(target_reg, temp_reg, value) of a value that is no global
generate_store(m, target_reg, temp_reg, value) ==
    generate_store_offset(target_reg, temp_reg, sfm_offset(m, value))

\* The raw type of a front-end type: the type its to_koopa text denotes.
RECURSIVE raw_array(_, _)
raw_array(dims, i) ==
    IF i > Len(dims) THEN RInt ELSE RArray(raw_array(dims, i + 1), dims[i])

raw_type(t) ==
    CASE t.k = "int" -> RInt
      [] t.k = "array" -> raw_array(t.dims, 1)
      [] t.k = "pointer" -> RPointer(raw_array(t.dims, 1))
      [] OTHER -> RUnit

\* The line ins defines the value the operand o names.
defines(ins, o) ==
    \/ o.k = "tmp" /\ ins.dst = o.n /\ ins.dst # 0
    \/ o.k = "sym" /\ ins.op = "alloc" /\ ins.dsym = o.s

\* The koopa_raw_value_t an operand names: the index of its instruction in
\* the function, 0 when it is none of them (a parameter).
value_index(insts, o) ==
    IF \E i \in 1..Len(insts) : defines(insts[i].ins, o)
    THEN CHOOSE i \in 1..Len(insts) : defines(insts[i].ins, o)
    ELSE 0

\* value->ty of the line ins, the lines before it typed: an alloc has the
\* type of a pointer to what it allocates, getelemptr a pointer to the
\* element of the array its source points to, getptr the type of its source,
\* load the type its source points to.  decl gives the type each "@name" was
\* allocated with.
instruction_type(ins, insts, decl) ==
    CASE ins.op = "alloc" ->
             IF ins.dsym \in DOMAIN decl THEN RPointer(raw_type(decl[ins.dsym]))
             ELSE RPointer(RInt)
      [] ins.op = "load" -> insts[value_index(insts, ins.a)].ty.base
      [] ins.op = "getelemptr" -> RPointer(insts[value_index(insts, ins.a)].ty.base.base)
      [] ins.op = "getptr" -> insts[value_index(insts, ins.a)].ty
      [] ins.op = "bin" -> RInt
      [] ins.op = "call" -> IF ins.dst = 0 THEN RUnit ELSE RInt
      [] OTHER -> RUnit

RECURSIVE typed(_, _, _)
\* The instructions of a function as the raw program holds them.
typed(code, decl, insts) ==
    IF Len(insts) = Len(code) THEN insts
    ELSE typed(code, decl,
               Append(insts, [ins |-> code[Len(insts) + 1],
                              ty |-> instruction_type(code[Len(insts) + 1], insts, decl)]))

\* The prologue of visit(koopa_raw_function_t) and the save of ra.
prologue(m) ==
    (IF sfm_rounded_size(m) <= 2048
     THEN <<Addi("sp", "sp", 0 - sfm_rounded_size(m))>>
     ELSE <<Li(reg_y, 0 - sfm_rounded_size(m)), Add("sp", "sp", reg_y)>>)
    \o generate_store_offset(reg_ra, reg_x, sfm_offset_upper(m))

\* "li if the value is an integer, generate_load otherwise", as written out
\* in the visits of return, call and visit_array_or_pointer.
load_value(m, insts, target_reg, temp_reg, o) ==
    IF o.k = "imm" THEN <<Li(target_reg, o.n)>>
    ELSE generate_load(m, target_reg, temp_reg, value_index(insts, o))

\* Mutant of visit_return: sp is raised by the size before rounding.
visit_return_size(m, insts, ins) ==
    (IF ins.a.k = "none" THEN <<>> ELSE load_value(m, insts, reg_ret, reg_x, ins.a))
    \o generate_load_offset(reg_ra, reg_x, sfm_offset_upper(m))
    \o <<Addi("sp", "sp", sfm_size(m)), RetAsm>>

\* visit(koopa_raw_return_t)
visit_return(m, insts, ins) ==
    (IF ins.a.k = "none" THEN <<>> ELSE load_value(m, insts, reg_ret, reg_x, ins.a))
    \o generate_load_offset(reg_ra, reg_x, sfm_offset_upper(m))
    \o (IF sfm_rounded_size(m) < 2048
        THEN <<Addi("sp", "sp", sfm_rounded_size(m))>>
        ELSE <<Li(reg_y, sfm_rounded_size(m)), Add("sp", "sp", reg_y)>>)
    \o <<RetAsm>>

\* visit(koopa_raw_load_t, parent_value)
visit_load(m, insts, ins, parent_value) ==
    generate_load(m, reg_x, reg_y, value_index(insts, ins.a))
    \o generate_store(m, reg_x, reg_y, parent_value)

\* The loop of visit(koopa_raw_store_t) over current_function->params.
argument_index(params, o) ==
    CHOOSE i \in 0..(Len(params) - 1) : params[i + 1] = o

\* Mutant of visit_store: a parameter passed on the stack is read at the
\* size of the frame before rounding.
visit_store_size(m, insts, params, ins) ==
    (IF ins.a.k = "imm" THEN <<Li(reg_x, ins.a.n)>>
     ELSE IF ~sfm_count(m, value_index(insts, ins.a))
     THEN IF argument_index(params, ins.a) < 8
          THEN <<Mv(reg_x, argument_register(argument_index(params, ins.a)))>>
          ELSE generate_load_offset(reg_x, reg_y,
                   sfm_size(m) + 4 * (argument_index(params, ins.a) - 8))
     ELSE generate_load_offset(reg_x, reg_y, sfm_offset(m, value_index(insts, ins.a))))
    \o generate_store(m, reg_x, reg_y, value_index(insts, ins.b))

\* Mutant of visit_store: every parameter passed in a register is read
\* from the first argument register.
visit_store_first(m, insts, params, ins) ==
    (IF ins.a.k = "imm" THEN <<Li(reg_x, ins.a.n)>>
     ELSE IF ~sfm_count(m, value_index(insts, ins.a))
     THEN IF argument_index(params, ins.a) < 8
          THEN <<Mv(reg_x, argument_register(0))>>
          ELSE generate_load_offset(reg_x, reg_y,
                   sfm_rounded_size(m) + 4 * (argument_index(params, ins.a) - 8))
     ELSE generate_load_offset(reg_x, reg_y, sfm_offset(m, value_index(insts, ins.a))))
    \o generate_store(m, reg_x, reg_y, value_index(insts, ins.b))

\* visit(koopa_raw_store_t)
visit_store(m, insts, params, ins) ==
    (IF ins.a.k = "imm" THEN <<Li(reg_x, ins.a.n)>>
     ELSE IF ~sfm_count(m, value_index(insts, ins.a))
     THEN IF argument_index(params, ins.a) < 8
          THEN <<Mv(reg_x, argument_register(argument_index(params, ins.a)))>>
          ELSE generate_load_offset(reg_x, reg_y,
                   sfm_rounded_size(m) + 4 * (argument_index(params, ins.a) - 8))
     ELSE generate_load_offset(reg_x, reg_y, sfm_offset(m, value_index(insts, ins.a))))
    \o generate_store(m, reg_x, reg_y, value_index(insts, ins.b))

\* visit_array_or_pointer(source, index, parent_value), source no global
visit_array_or_pointer(m, insts, source, index, parent_value) ==
    (IF -2048 <= sfm_offset(m, source) /\ sfm_offset(m, source) < 2048
     THEN <<Addi(reg_x, "sp", sfm_offset(m, source))>>
     ELSE <<Li(reg_z, sfm_offset(m, source)), Add(reg_x, "sp", reg_z)>>)
    \o load_value(m, insts, reg_y, reg_z, index)
    \o <<Li(reg_z, get_size(insts[source].ty)), Mul(reg_y, reg_y, reg_z),
         Add(reg_x, reg_x, reg_y)>>
    \o generate_store(m, reg_x, reg_z, parent_value)

RECURSIVE register_arguments(_, _, _, _)
\* The first loop of visit(koopa_raw_call_t) from argument i.
register_arguments(m, insts, args, i) ==
    IF i >= Len(args) \/ i >= 8 THEN <<>>
    ELSE load_value(m, insts, argument_register(i), reg_y, args[i + 1])
         \o register_arguments(m, insts, args, i + 1)

RECURSIVE stack_arguments(_, _, _, _)
\* The second loop of visit(koopa_raw_call_t) from argument i.
stack_arguments(m, insts, args, i) ==
    IF i >= Len(args) THEN <<>>
    ELSE load_value(m, insts, reg_x, reg_y, args[i + 1])
         \o generate_store_offset(reg_x, reg_y, sfm_offset_lower(m) + (i - 8) * 4)
         \o stack_arguments(m, insts, args, i + 1)

\* visit(koopa_raw_call_t, parent_value)
visit_call(m, insts, ins, parent_value) ==
    register_arguments(m, insts, ins.args, 0)
    \o stack_arguments(m, insts, ins.args, 8)
    \o <<CallAsm(ins.sub)>>
    \o (IF insts[parent_value].ty.tag # "unit"
        THEN generate_store(m, reg_ret, reg_x, parent_value) ELSE <<>>)

\* visit(koopa_raw_value_t) of instruction i, and the label
\* visit(koopa_raw_basic_block_t) emits for a block.
visit_value(m, insts, params, i) ==
    CASE insts[i].ins.op = "label" -> <<LabelAsm(insts[i].ins.l1)>>
      [] insts[i].ins.op = "ret" -> visit_return(m, insts, insts[i].ins)
      [] insts[i].ins.op = "alloc" -> <<>>
      [] insts[i].ins.op = "load" -> visit_load(m, insts, insts[i].ins, i)
      [] insts[i].ins.op = "store" -> visit_store(m, insts, params, insts[i].ins)
      [] insts[i].ins.op = "call" -> visit_call(m, insts, insts[i].ins, i)
      [] insts[i].ins.op \in {"getelemptr", "getptr"} ->
             visit_array_or_pointer(m, insts, value_index(insts, insts[i].ins.a),
                                    insts[i].ins.b, i)

----------------------------------------------------------------------------
(* One function compiled by the back end, then run on a machine with the   *)
(* registers and the memory of the target.                                 *)

MaxArgs == 10       \* arguments of a call
StackTop == 16 * 16 \* sp when the function is entered
CallerArray == StackTop + 16  \* the array the caller passes for p

Registers ==
    {"sp", "ra", "a0", "a1", "a2", "a3", "a4", "a5", "a6", "a7", "t1", "t2", "t3"}
Addresses == { 4 * w : w \in 0..((StackTop \div 4) + 16) }

\* A local variable defined without an initializer: the insert and the alloc.
Local(fn, raw_name, type) ==
    LET symbol == Symbol("variable", type, 0, 0)
        stack2 == st_insert_stack(fn.stack, fn.count, raw_name, symbol)
    IN  [stack |-> stack2,
         count |-> st_insert_count(fn.stack, fn.count, raw_name, symbol),
         code |-> fn.code \o <<AllocSym(st_at(stack2, raw_name).internal_name)>>]

\* The table of the functions called: int g(...) and void h(...).
CalleeTable ==
    st_insert_stack(st_insert_stack(<<EmptyTable>>, EmptyTable, <<"g">>,
                                    FunctionSymbol("int")),
                    EmptyTable, <<"h">>, FunctionSymbol("void"))

BackParameters ==
    << <<<<"x">>, int_type>>, <<<<"p">>, Type("pointer", <<3>>, "")>> >>

\* int f(int x, int p[][3]) { int s; int a[2][3]; int t;
FunctionEntered ==
    Local(Local(Local(function_to_koopa(<<"f">>, "int", BackParameters, CalleeTable,
                                        EmptyTable),
                      <<"s">>, int_type),
                <<"a">>, Type("array", <<2, 3>>, "")),
          <<"t">>, int_type)

\* The type each "@name" of FunctionEntered is allocated with.
Declared ==
    LET table == FunctionEntered.stack[Len(FunctionEntered.stack)]
                 @@ FunctionEntered.stack[Len(FunctionEntered.stack) - 1]
    IN  [n \in { table[r].internal_name : r \in DOMAIN table } |->
            (CHOOSE r \in DOMAIN table : table[r].internal_name = n) ]

DeclaredType ==
    LET table == FunctionEntered.stack[Len(FunctionEntered.stack)]
                 @@ FunctionEntered.stack[Len(FunctionEntered.stack) - 1]
    IN  [n \in DOMAIN Declared |-> table[Declared[n]].type]

\* The index or the value of the statement drawn: the literal, or x when
\* the function is entered with that value in x.
Drawn(as_x, n) == IF as_x THEN x ELSE Num(n)

\* The arguments of a call with k arguments: argument i is the literal
\* i + 1, or x for the odd i when with_x.
RECURSIVE Arguments(_, _)
Arguments(k, with_x) ==
    IF k = 0 THEN <<>>
    ELSE Append(Arguments(k - 1, with_x),
                IF with_x /\ (k - 1) % 2 = 1 THEN x ELSE Num(k))

\* The statements of the body drawn, lowered: src is what was drawn.
BodyLowered(src) ==
    CASE src.family = "array" ->
             assignment_to_koopa(<<"a">>, <<Drawn(src.as_x, src.i), Num(src.j)>>,
                                 Num(src.v), ZeroCounters, FunctionEntered.stack)
      [] src.family = "pointer" ->
             assignment_to_koopa(<<"p">>, <<Drawn(src.as_x, src.i), Num(src.j)>>,
                                 Num(src.v), ZeroCounters, FunctionEntered.stack)
      [] src.family = "call" ->
             LET first == call_to_koopa(<<"g">>, Arguments(src.i, src.as_x),
                                        ZeroCounters, FunctionEntered.stack)
                 second == call_to_koopa(<<"h">>, Arguments(src.j, src.as_x),
                                         first.c, FunctionEntered.stack)
             IN  Lowered(first.code \o second.code, 0, second.c)
      [] src.family = "return" ->
             LET first == call_to_koopa(<<"g">>, Arguments(src.i, src.as_x),
                                        ZeroCounters, FunctionEntered.stack)
                 second == return_to_koopa(Drawn(src.as_x, src.v), first.c,
                                           FunctionEntered.stack)
             IN  Lowered(first.code \o second.code, 0, second.c)

\* What is drawn: a[i][j] = v, p[i][j] = v, g(i arguments); h(j arguments),
\* or g(i arguments); return x (or v).
Sources ==
    [family : {"array", "pointer"}, i : 0..1, j : 0..2, v : 1..MaxLit, as_x : BOOLEAN]
    \cup [family : {"call"}, i : 0..MaxArgs, j : 0..MaxArgs, v : {MaxLit},
          as_x : BOOLEAN]
    \cup [family : {"return"}, i : {0, MaxArgs - 1}, j : {0}, v : 1..MaxLit,
          as_x : BOOLEAN]

\* The function as the raw program holds it: the lines after the header,
\* the body and `return 0;`.
RawFunction(src) ==
    [params |-> [i \in 1..Len(BackParameters) |-> Sym(BackParameters[i][1])],
     insts |-> typed(Tail(FunctionEntered.code) \o BodyLowered(src).code
                       \o <<Ret(Imm(0))>>,
                     DeclaredType, <<>>),
     source |-> src]

\* The value of x the function is entered with: the index i of an
\* assignment drawn with x for i, a value no literal argument has for calls.
EnteredX(src) == IF src.family = "call" THEN MaxArgs + 1 ELSE src.i

InitBack ==
    /\ \E src \in Sources : raw = RawFunction(src)
    /\ sfm = sfm_alloc_upper(sfm_clear, 4)
    /\ max_parameter_count = 0
    /\ riscv = <<>>
    /\ back_pc = <<"scan", 1>>
    /\ reg = [r \in Registers |->
                CASE r = "sp" -> StackTop
                  [] r = "ra" -> 0 - 1
                  [] r = "a0" -> EnteredX(raw.source)
                  [] r = "a1" -> CallerArray
                  [] OTHER -> 0]
    /\ mem = [a \in Addresses |-> 0]
    /\ asm_pc = 1
    /\ at_call = <<>>
    /\ sfm_calls = <<>>
    /\ table_stack = <<EmptyTable>>
    /\ use_count = EmptyTable
    /\ STIdle
    /\ LowerIdle
    /\ WalkIdle
    /\ RunIdle
    /\ AggIdle
    /\ ParseIdle
    /\ FrontIdle

BackUnchanged ==
    UNCHANGED <<st_vars, lower_vars, walk_vars, run_vars, agg_vars, parse_vars,
                front_end, raw, sfm_calls>>

\* One round of the scan of visit(koopa_raw_function_t).
Scan ==
    /\ back_pc[1] = "scan"
    /\ back_pc[2] <= Len(raw.insts)
    /\ max_parameter_count' =
         IF raw.insts[back_pc[2]].ins.op = "call"
            /\ Len(raw.insts[back_pc[2]].ins.args) > max_parameter_count
         THEN Len(raw.insts[back_pc[2]].ins.args) ELSE max_parameter_count
    /\ sfm' = IF raw.insts[back_pc[2]].ty.tag # "unit"
              THEN sfm_alloc(sfm, back_pc[2], get_size(raw.insts[back_pc[2]].ty))
              ELSE sfm
    /\ back_pc' = <<"scan", back_pc[2] + 1>>
    /\ UNCHANGED <<riscv, reg, mem, asm_pc, at_call>>
    /\ BackUnchanged

\* The frame is planned, m being the stack_frame_manager after the scan.
Planned(m) ==
    /\ sfm' = m
    /\ riscv' = prologue(m)
    /\ back_pc' = <<"visit", 1>>

\* The end of the scan and the prologue.
Plan ==
    /\ back_pc[1] = "scan"
    /\ back_pc[2] > Len(raw.insts)
    /\ Planned(IF max_parameter_count > 8
               THEN sfm_alloc_lower(sfm, (max_parameter_count - 8) * 4) ELSE sfm)
    /\ UNCHANGED <<max_parameter_count, reg, mem, asm_pc, at_call>>
    /\ BackUnchanged

\* The assembly code, each instruction marked with the instruction i of the
\* function it was emitted for (a history field).
Emitted(code, i) == [n \in 1..Len(code) |-> [code[n] EXCEPT !.at = i]]

\* One instruction of the function visited.
Visit ==
    /\ back_pc[1] = "visit"
    /\ back_pc[2] <= Len(raw.insts)
    /\ riscv' = riscv \o Emitted(visit_value(sfm, raw.insts, raw.params, back_pc[2]),
                                 back_pc[2])
    /\ back_pc' = <<"visit", back_pc[2] + 1>>
    /\ UNCHANGED <<sfm, max_parameter_count, reg, mem, asm_pc, at_call>>
    /\ BackUnchanged

\* The registers after the instruction a is executed; returned is what a
\* callee leaves in a0.
executed_reg(a, returned) ==
    CASE a.op = "li" -> [reg EXCEPT ![a.rd] = a.imm]
      [] a.op = "lw" -> [reg EXCEPT ![a.rd] = mem[reg[a.rs1] + a.imm]]
      [] a.op = "add" -> [reg EXCEPT ![a.rd] = reg[a.rs1] + reg[a.rs2]]
      [] a.op = "sub" -> [reg EXCEPT ![a.rd] = reg[a.rs1] - reg[a.rs2]]
      [] a.op = "mul" -> [reg EXCEPT ![a.rd] = reg[a.rs1] * reg[a.rs2]]
      [] a.op = "addi" -> [reg EXCEPT ![a.rd] = reg[a.rs1] + a.imm]
      [] a.op = "mv" -> [reg EXCEPT ![a.rd] = reg[a.rs1]]
      [] a.op = "call" -> [reg EXCEPT !["ra"] = asm_pc + 1, !["a0"] = returned]
      [] OTHER -> reg

\* One instruction of the assembly executed.  A callee is taken to return
\* with the memory at and above sp as it found it.
Execute ==
    /\ back_pc[1] = "visit"
    /\ back_pc[2] > Len(raw.insts)
    /\ asm_pc \in 1..Len(riscv)
    /\ \E returned \in 0..1 : reg' = executed_reg(riscv[asm_pc], returned)
    /\ mem' = IF riscv[asm_pc].op = "sw"
              THEN [mem EXCEPT ![reg[riscv[asm_pc].rs1] + riscv[asm_pc].imm] =
                                   reg[riscv[asm_pc].rs2]]
              ELSE mem
    /\ at_call' = IF riscv[asm_pc].op = "call"
                  THEN Append(at_call, [at |-> riscv[asm_pc].at, reg |-> reg,
                                        mem |-> mem])
                  ELSE at_call
    /\ asm_pc' = IF riscv[asm_pc].op = "ret" THEN 0 ELSE asm_pc + 1
    /\ UNCHANGED <<sfm, max_parameter_count, riscv, back_pc>>
    /\ BackUnchanged

NextBack == Scan \/ Plan \/ Visit \/ Execute

SpecBack == InitBack /\ [][NextBack]_vars

----------------------------------------------------------------------------
(* Aggregate initializers.  The initializer of an array is read item by    *)
(* item: <<"num", n>>, the opening brace <<"{", 0>> of a nested list, or   *)
(* the closing brace <<"}", 0>> of the list being read.                    *)
(* generate_variable_aggregate (the same code as generate_const_aggregate) *)
(* and generate_variable_initialization_code read the same items; each     *)
(* call of either on the call stack is a frame.                            *)

MaxTokens == 6      \* items and braces of an initializer

\* The shapes of the arrays defined.
Shapes == { <<2>>, <<3, 2>>, <<2, 3, 2>> }

\* The internal name of the array defined.
ArrayName == format_us(format_us(<<"a">>, 2), 1)

\* size_hint from element cut_index on (elements are counted from 0).
hint_from(size_hint, cut_index) == SubSeq(size_hint, cut_index + 1, Len(size_hint))

\* !(ret.size() % size_hint.back())
is_aligned(size, size_hint) == size % size_hint[Len(size_hint)] = 0

\* Mutant of cut: the loop is not entered.
cut_first(size, part_size, cut_index, size_hint) ==
    [cut_index |-> cut_index, part_size |-> part_size]

RECURSIVE cut(_, _, _, _)
\* The while loop that finds the boundary size is aligned to.
cut(size, part_size, cut_index, size_hint) ==
    IF cut_index < Len(size_hint) /\ size % part_size # 0
    THEN cut(size, part_size \div size_hint[cut_index + 1], cut_index + 1, size_hint)
    ELSE [cut_index |-> cut_index, part_size |-> part_size]

\* cut_index and part_size when the nested list is handed on.
boundary(size, size_hint) ==
    cut(size, Product(size_hint, 1) \div size_hint[1], 1, size_hint)

RECURSIVE zero_filled(_, _)
\* while (ret.size() < whole_size) ret.push_back(0);
zero_filled(ret, whole_size) ==
    IF Len(ret) < whole_size THEN zero_filled(Append(ret, 0), whole_size) ELSE ret

AggFrame(size_hint, ret) == [size_hint |-> size_hint, ret |-> ret]

\* generate_variable_aggregate meets a number.
aggregate_number(fs, n) ==
    [fs EXCEPT ![Len(fs)].ret = Append(@, n)]

\* generate_variable_aggregate meets a nested list it is aligned for: the
\* recursive call.
aggregate_nested(fs) ==
    Append(fs,
           AggFrame(hint_from(fs[Len(fs)].size_hint,
                              boundary(Len(fs[Len(fs)].ret),
                                       fs[Len(fs)].size_hint).cut_index),
                    <<>>))

\* The vector a call of generate_variable_aggregate returns.
aggregate_returned(frame) == zero_filled(frame.ret, Product(frame.size_hint, 1))

\* generate_variable_aggregate returns to the call below it.
aggregate_inserted(fs) ==
    [SubSeq(fs, 1, Len(fs) - 1) EXCEPT
        ![Len(fs) - 1].ret = @ \o aggregate_returned(fs[Len(fs)])]

\* The size of the text of the getelemptr lines from index i on and of the
\* store line: "    %{} = getelemptr {}, {}\n" and "    store {}, {}\n".
\* id is the last result id given, source and holder the sizes of the text
\* of current_source and of expression_holder.
RECURSIVE chain_size(_, _, _, _, _)
chain_size(indices, i, id, source, holder) ==
    IF i > Len(indices) THEN 4 + 5 + 1 + holder + 2 + source + 1
    ELSE 4 + 1 + Len(to_string(id + 1)) + 3 + 10 + 1 + source + 2
           + Len(to_string(indices[i])) + 1
         + chain_size(indices, i + 1, id + 1, 1 + Len(to_string(id + 1)), holder)

CodeFrame(size_hint, part_size) ==
    [size_hint |-> size_hint, current_index |-> 0, ret_size |-> 0,
     part_size |-> part_size]

\* One element stored by generate_variable_initialization_code: the chain
\* to element base_count and the store of value, whose text has holder
\* characters.  stores is a history field: the indices and the value of
\* every store emitted.
element_stored(run, value, holder) ==
    [run EXCEPT
        !.frames[Len(run.frames)].current_index = @ + 1,
        !.frames[Len(run.frames)].ret_size =
            @ + chain_size(flatten_to_indices(run.base_count, agg_shape), 1,
                           run.result_id, 1 + Len(ArrayName), holder),
        !.base_count = @ + 1,
        !.result_id = @ + Len(flatten_to_indices(run.base_count, agg_shape)),
        !.stores = Append(@, <<flatten_to_indices(run.base_count, agg_shape), value>>)]

\* generate_variable_initialization_code meets a nested list it takes to
\* be aligned: the recursive call.
code_nested(run) ==
    [run EXCEPT
        !.frames = Append(@,
            CodeFrame(hint_from(run.frames[Len(run.frames)].size_hint,
                                boundary(run.frames[Len(run.frames)].ret_size,
                                         run.frames[Len(run.frames)].size_hint).cut_index),
                      boundary(run.frames[Len(run.frames)].ret_size,
                               run.frames[Len(run.frames)].size_hint).part_size))]

RECURSIVE code_filled(_)
\* The zero fill of generate_variable_initialization_code.
code_filled(run) ==
    IF run.frames[Len(run.frames)].current_index
         < Product(run.frames[Len(run.frames)].size_hint, 1)
    THEN code_filled(element_stored(run, 0, 1))
    ELSE run

\* generate_variable_initialization_code has returned to the call below it,
\* run being the state after the zero fill of the call that returns:
\* base_count, passed by reference, is advanced once more.
code_returned(run) ==
    IF Len(run.frames) = 1 THEN [run EXCEPT !.status = "done"]
    ELSE [run EXCEPT
             !.frames = [SubSeq(run.frames, 1, Len(run.frames) - 1) EXCEPT
                            ![Len(run.frames) - 1].current_index =
                                @ + run.frames[Len(run.frames)].part_size,
                            ![Len(run.frames) - 1].ret_size =
                                @ + run.frames[Len(run.frames)].ret_size],
             !.base_count = @ + run.frames[Len(run.frames)].part_size]

InitAgg ==
    /\ agg_shape \in Shapes
    /\ agg_input = <<>>
    /\ agg_frames = <<AggFrame(agg_shape, <<>>)>>
    /\ agg_status = "running"
    /\ agg_result = <<>>
    /\ code_run = [frames |-> <<CodeFrame(agg_shape, 0)>>, base_count |-> 0,
                   result_id |-> 0, stores |-> <<>>, status |-> "running"]
    /\ table_stack = <<EmptyTable>>
    /\ use_count = EmptyTable
    /\ STIdle
    /\ LowerIdle
    /\ WalkIdle
    /\ RunIdle
    /\ BackIdle
    /\ ParseIdle
    /\ FrontIdle

AggUnchanged ==
    UNCHANGED <<st_vars, lower_vars, walk_vars, run_vars, back_vars, parse_vars,
                front_end, agg_shape>>

\* The lists opened and not yet closed, the outermost one included.
OpenLists ==
    1 + Cardinality({ i \in 1..Len(agg_input) : agg_input[i][1] = "{" })
      - Cardinality({ i \in 1..Len(agg_input) : agg_input[i][1] = "}" })

\* The next item is a number: the numbers of an initializer are 1, 2, ...
Number ==
    /\ Len(agg_input) < MaxTokens
    /\ OpenLists > 0
    /\ LET n == 1 + Cardinality({ i \in 1..Len(agg_input) : agg_input[i][1] = "num" })
       IN  /\ agg_input' = Append(agg_input, <<"num", n>>)
           /\ agg_frames' = IF agg_status = "running"
                            THEN aggregate_number(agg_frames, n) ELSE agg_frames
           /\ code_run' = IF code_run.status = "running"
                          THEN element_stored(code_run, n, Len(to_string(n)))
                          ELSE code_run
    /\ UNCHANGED <<agg_status, agg_result>>
    /\ AggUnchanged

\* The outcomes of size_hint.back() and size_hint[0] on an empty vector
\* (undefined behaviour): an exception or the end of the process.
UndefinedOutcomes == {"domain_error", "crash"}

\* The next item is a nested list.
OpenBrace ==
    /\ Len(agg_input) < MaxTokens
    /\ OpenLists > 0
    /\ agg_input' = Append(agg_input, <<"{", 0>>)
    /\ \E undefined \in UndefinedOutcomes :
         /\ agg_status' =
              IF agg_status # "running" THEN agg_status
              ELSE IF agg_frames[Len(agg_frames)].size_hint = <<>> THEN undefined
              ELSE IF ~is_aligned(Len(agg_frames[Len(agg_frames)].ret),
                                  agg_frames[Len(agg_frames)].size_hint)
              THEN "domain_error"
              ELSE "running"
         /\ agg_frames' = IF agg_status' = "running" THEN aggregate_nested(agg_frames)
                          ELSE agg_frames
         /\ code_run' =
              IF code_run.status # "running" THEN code_run
              ELSE IF code_run.frames[Len(code_run.frames)].size_hint = <<>>
              THEN [code_run EXCEPT !.status = undefined]
              ELSE IF ~is_aligned(code_run.frames[Len(code_run.frames)].ret_size,
                                  code_run.frames[Len(code_run.frames)].size_hint)
              THEN [code_run EXCEPT !.status = "domain_error"]
              ELSE code_nested(code_run)
    /\ UNCHANGED agg_result
    /\ AggUnchanged

\* The list being read ends.
CloseBrace ==
    /\ Len(agg_input) < MaxTokens
    /\ OpenLists > 0
    /\ agg_input' = Append(agg_input, <<"}", 0>>)
    /\ agg_status' = IF agg_status = "running" /\ Len(agg_frames) = 1 THEN "done"
                     ELSE agg_status
    /\ agg_result' = IF agg_status = "running" /\ Len(agg_frames) = 1
                     THEN aggregate_returned(agg_frames[1]) ELSE agg_result
    /\ agg_frames' = IF agg_status = "running" /\ Len(agg_frames) > 1
                     THEN aggregate_inserted(agg_frames) ELSE agg_frames
    /\ code_run' = IF code_run.status = "running" THEN code_returned(code_filled(code_run))
                   ELSE code_run
    /\ AggUnchanged

NextAgg == Number \/ OpenBrace \/ CloseBrace

SpecAgg == InitAgg /\ [][NextAgg]_vars

----------------------------------------------------------------------------
(* Loops: the body of one function drawn from blocks, if and while          *)
(* statements, `;`, break and continue, long enough for a loop inside a    *)
(* loop followed by a statement of the outer loop.                         *)

MaxLoopItems == 5

\* `int f_1(int x, int a[][2]) {` lowered in the table of a new program.
LoopFunction ==
    function_to_koopa(format_us(<<"f">>, 1), "int", Parameters,
                      program_table(<<EmptyTable>>, Len(lib_functions)), EmptyTable)

InitLoops ==
    /\ table_stack = LoopFunction.stack
    /\ use_count = LoopFunction.count
    /\ STIdle
    /\ counters = ZeroCounters
    /\ koopa = [i \in 1..Len(lib_functions) |-> Decl(<<lib_functions[i][1]>>)]
                 \o LoopFunction.code
    /\ frames = <<Frame("function", "int", NoLabels, FALSE, "", <<>>, <<>>)>>
    /\ items_left = MaxLoopItems
    /\ RunIdle
    /\ ExtIdle

NextLoops ==
    \/ EmptyStatement \/ Break \/ Continue
    \/ BeginBlock \/ EndBlock \/ BeginIf \/ BeginWhile

SpecLoops == InitLoops /\ [][NextLoops]_vars

----------------------------------------------------------------------------
(* The parser and the front end on the global definitions of one source    *)
(* file: yyparse runs the action of each definition in source order, then  *)
(* ast_program_t::to_koopa lowers the definitions in the same order.       *)

MaxDefinitions == 3
MaxSize == 3        \* the sizes an indeterminate read may yield are 0..MaxSize

ConstName == <<"N">>
ConstValues == {2, 3}

N == LVal(ConstName, <<>>)

\* The array dimension lists drawn: [2], [N] and [2][N].
DimensionLists == { <<Num(2)>>, <<N>>, <<Num(2), N>> }

VariableName(i) == <<"v">> \o to_string(i)

\* `const int N = v;`
ConstDefinition(v) ==
    [kind |-> "const", raw_name |-> ConstName, shape |-> <<>>, value |-> Num(v)]

\* `int v<i> shape;`
VariableDefinition(i, shape) ==
    [kind |-> "variable", raw_name |-> VariableName(i), shape |-> shape, value |-> <<>>]

DefinitionsAt(i) ==
    { ConstDefinition(v) : v \in ConstValues }
      \cup { VariableDefinition(i, shape) : shape \in DimensionLists }

NamesConst(shape) == \E d \in 1..Len(shape) : shape[d] = N

\* A source file that declares N at most once and names it after its
\* declaration only.
ValidUnit(u) ==
    /\ \A i \in 1..Len(u) : u[i] \in DefinitionsAt(i)
    /\ \A i, j \in 1..Len(u) : u[i].kind = "const" /\ u[j].kind = "const" => i = j
    /\ \A i \in 1..Len(u) :
         NamesConst(u[i].shape) => \E j \in 1..(i - 1) : u[j].kind = "const"

Units ==
    UNION { { u \in [1..n -> UNION { DefinitionsAt(i) : i \in 1..n }] : ValidUnit(u) } :
            n \in 1..MaxDefinitions }

\* The values operator* may yield on a std::optional<int>: the value held,
\* or for an empty optional (undefined behaviour) whatever its storage holds.
UndefinedSizes == 0..MaxSize

dereferenced(number) == IF number.k = "some" THEN {number.v} ELSE UndefinedSizes

\* sizes of the action of nt_variable_definition: one
\* *(dimension->get_inline_number()) per dimension, in the table of the moment.
sizes_of(shape, stack) ==
    { sizes \in [1..Len(shape) -> UndefinedSizes \cup ConstValues] :
        \A d \in 1..Len(shape) :
            sizes[d] \in dereferenced(get_inline_number(shape[d], stack)) }

\* The type the action builds from sizes; the innermost base type (and the
\* type of a definition without dimensions) is filled in by the declaration.
type_of_sizes(sizes) == IF sizes = <<>> THEN int_type ELSE Type("array", sizes, "")

parsed(def, sizes) ==
    [kind |-> def.kind, raw_name |-> def.raw_name, type |-> type_of_sizes(sizes),
     value |-> def.value]

InitParse ==
    /\ unit \in Units
    /\ ast = <<>>
    /\ parse_pos = <<"parse", 1>>
    /\ front_end = "running"
    /\ table_stack = <<EmptyTable>>
    /\ use_count = EmptyTable
    /\ STIdle
    /\ LowerIdle
    /\ WalkIdle
    /\ RunIdle
    /\ BackIdle
    /\ AggIdle

ParseUnchanged ==
    UNCHANGED <<names_given, open_log, popped, n_inserts, counters, walk_vars, run_vars,
                back_vars, agg_vars, unit>>

\* The action of nt_const_definition or nt_variable_definition for the next
\* definition of the file.  A dimension that does not fold dereferences an
\* empty optional: the size is indeterminate, or a checked build aborts.
ParseDefinition ==
    /\ front_end = "running"
    /\ parse_pos[1] = "parse"
    /\ parse_pos[2] <= Len(unit)
    /\ \/ /\ \E sizes \in sizes_of(unit[parse_pos[2]].shape, table_stack) :
               ast' = Append(ast, parsed(unit[parse_pos[2]], sizes))
          /\ parse_pos' = <<"parse", parse_pos[2] + 1>>
          /\ UNCHANGED front_end
       \/ /\ \E d \in 1..Len(unit[parse_pos[2]].shape) :
               get_inline_number(unit[parse_pos[2]].shape[d], table_stack).k # "some"
          /\ front_end' = "crash"
          /\ UNCHANGED <<ast, parse_pos>>
    /\ UNCHANGED <<table_stack, use_count, koopa>>
    /\ ParseUnchanged

\* yyparse has returned: ast_program_t::to_koopa up to the items.
BeginProgram ==
    /\ front_end = "running"
    /\ parse_pos = <<"parse", Len(unit) + 1>>
    /\ table_stack' = program_table(table_stack, Len(lib_functions))
    /\ koopa' = koopa \o [i \in 1..Len(lib_functions) |-> Decl(<<lib_functions[i][1]>>)]
    /\ parse_pos' = <<"lower", 1>>
    /\ UNCHANGED <<use_count, ast, front_end>>
    /\ ParseUnchanged

\* The symbol ast_const_definition_t::to_koopa (scalar branch) or
\* ast_variable_definition_t::to_koopa inserts for def.
symbol_of(def, number) ==
    IF def.kind = "const" THEN Symbol("const", def.type, number.v, 0)
    ELSE Symbol("variable", def.type, 0, 0)

\* The lines of a global definition, its symbol inserted in stack.
definition_code(def, stack) ==
    IF def.kind = "const" THEN <<>>
    ELSE <<AllocSym(st_at(stack, def.raw_name).internal_name)>>

defined(def, symbol) ==
    /\ table_stack' = st_insert_stack(table_stack, use_count, def.raw_name, symbol)
    /\ use_count' = st_insert_count(table_stack, use_count, def.raw_name, symbol)
    /\ koopa' = koopa \o definition_code(def, table_stack')

\* to_koopa of the next definition of the program.
LowerDefinition ==
    /\ front_end = "running"
    /\ parse_pos[1] = "lower"
    /\ parse_pos[2] <= Len(ast)
    /\ defined(ast[parse_pos[2]],
               symbol_of(ast[parse_pos[2]],
                         IF ast[parse_pos[2]].kind = "const"
                         THEN get_inline_number(ast[parse_pos[2]].value, table_stack)
                         ELSE NullOpt))
    /\ parse_pos' = <<"lower", parse_pos[2] + 1>>
    /\ UNCHANGED <<ast, front_end>>
    /\ ParseUnchanged

NextParse == ParseDefinition \/ BeginProgram \/ LowerDefinition

SpecParse == InitParse /\ [][NextParse]_vars

----------------------------------------------------------------------------
(* A caller and its callee: the function of SpecBack calls g, and the      *)
(* function visited next is g, with one int parameter for each argument    *)
(* of the call; it is run from the machine state of the call.              *)

\* The locals the body of g is drawn with: none, `int u;` or `int b[2][3];`
CalleeLocals == <<int_type, int_type, Type("array", <<2, 3>>, "")>>

CalleeParameters(n) == [i \in 1..n |-> <<<<"q">> \o to_string(i - 1), int_type>>]

\* int g(int q0, ..., int q<n-1>) { the local of the variant
CalleeEntered(n, variant) ==
    IF variant = 0
    THEN function_to_koopa(<<"g">>, "int", CalleeParameters(n), <<EmptyTable>>,
                           EmptyTable)
    ELSE Local(function_to_koopa(<<"g">>, "int", CalleeParameters(n), <<EmptyTable>>,
                                 EmptyTable),
               <<"b">>, CalleeLocals[variant + 1])

\* The type the local of g is allocated with, by its "@name".
CalleeDeclared(variant) ==
    format_us(format_us(<<"b">>, 2), 1) :> CalleeLocals[variant + 1]

\* g as the raw program holds it; source tells the call it is entered from.
RawCallee(src, variant) ==
    [params |-> [i \in 1..src.i |-> Sym(CalleeParameters(src.i)[i][1])],
     insts |-> typed(Tail(CalleeEntered(src.i, variant).code) \o <<Ret(Imm(0))>>,
                     CalleeDeclared(variant), <<>>),
     source |-> [src EXCEPT !.family = "callee", !.j = variant]]

InitPair ==
    /\ InitBack
    /\ raw.source.family = "call"
    /\ raw.source.j = 0

\* The caller has been compiled and run; visit(koopa_raw_function_t) starts
\* on g (sfm.clear() and alloc_upper), and the machine is at the entry of g
\* as the call of the caller left it.
EnterCallee ==
    /\ raw.source.family = "call"
    /\ asm_pc = 0
    /\ at_call # <<>>
    /\ \E variant \in 0..(Len(CalleeLocals) - 1) : raw' = RawCallee(raw.source, variant)
    /\ sfm' = sfm_alloc_upper(sfm_clear, 4)
    /\ max_parameter_count' = 0
    /\ riscv' = <<>>
    /\ back_pc' = <<"scan", 1>>
    /\ reg' = [at_call[1].reg EXCEPT ![reg_ra] = 0 - 1]
    /\ mem' = at_call[1].mem
    /\ asm_pc' = 1
    /\ UNCHANGED <<at_call, sfm_calls>>
    /\ UNCHANGED <<st_vars, lower_vars, walk_vars, run_vars, agg_vars, parse_vars,
                   front_end>>

NextPair == Scan \/ Plan \/ Visit \/ Execute \/ EnterCallee

SpecPair == InitPair /\ [][NextPair]_vars

----------------------------------------------------------------------------
(* The stack load and store helpers, each emitted for one offset and run.  *)

\* The offsets drawn, on both sides of the two ends of [-2048, 2047].
AccessOffsets == {-4096, -2052, -2049, -2048, -4, 0, 4, 2044, 2047, 2048, 2052, 4096}

\* The target and the scratch register of the calls of the helpers in
\* koopa_to_riscv.cpp.
AccessRegisters ==
    { <<reg_ra, reg_x>>, <<reg_ret, reg_x>>, <<reg_y, reg_x>>, <<reg_z, reg_x>>,
      <<reg_x, reg_y>>, <<reg_x, reg_z>>, <<reg_y, reg_z>>, <<"a7", reg_y>> }

AccessSp == 2 * 4096

\* What a register other than sp holds when the helper's code is entered.
AccessValue == 0 - 7

Accesses ==
    [family : {"load", "store"}, registers : AccessRegisters, offset : AccessOffsets]

InitAccess ==
    /\ \E src \in Accesses : raw = [params |-> <<>>, insts |-> <<>>, source |-> src]
    /\ sfm = sfm_clear
    /\ sfm_calls = <<>>
    /\ max_parameter_count = 0
    /\ riscv = <<>>
    /\ back_pc = <<"emit", 0>>
    /\ reg = [r \in Registers |-> IF r = "sp" THEN AccessSp ELSE AccessValue]
    /\ mem = [a \in { AccessSp + o : o \in AccessOffsets } |-> a]
    /\ asm_pc = 1
    /\ at_call = <<>>
    /\ table_stack = <<EmptyTable>>
    /\ use_count = EmptyTable
    /\ STIdle
    /\ LowerIdle
    /\ WalkIdle
    /\ RunIdle
    /\ AggIdle
    /\ ParseIdle
    /\ FrontIdle

\* generate_load or generate_store called with the registers and the offset
\* drawn.
EmitAccess ==
    /\ back_pc = <<"emit", 0>>
    /\ riscv' = IF raw.source.family = "load"
                THEN generate_load_offset(raw.source.registers[1],
                                          raw.source.registers[2], raw.source.offset)
                ELSE generate_store_offset(raw.source.registers[1],
                                           raw.source.registers[2], raw.source.offset)
    /\ back_pc' = <<"visit", 1>>
    /\ UNCHANGED <<sfm, max_parameter_count, reg, mem, asm_pc, at_call>>
    /\ BackUnchanged

NextAccess == EmitAccess \/ Execute

SpecAccess == InitAccess /\ [][NextAccess]_vars

----------------------------------------------------------------------------
(* The stack_frame_manager driven by any sequence of clear, alloc,         *)
(* alloc_lower and alloc_upper.                                            *)

MaxCalls == 5

SfmValues == 1..2
SlotSizes == {0, 4, 12}
LowerSizes == {0, 8}
UpperSizes == {0, 4}

SfmCall(op, id, size) == [op |-> op, id |-> id, size |-> size]

\* stack_frame_manager::stack_frame_manager
InitSfm ==
    /\ sfm = sfm_clear
    /\ sfm_calls = <<>>
    /\ raw = <<>>
    /\ max_parameter_count = 0
    /\ riscv = <<>>
    /\ back_pc = <<"idle", 0>>
    /\ reg = <<>>
    /\ mem = <<>>
    /\ asm_pc = 0
    /\ at_call = <<>>
    /\ table_stack = <<EmptyTable>>
    /\ use_count = EmptyTable
    /\ STIdle
    /\ LowerIdle
    /\ WalkIdle
    /\ RunIdle
    /\ AggIdle
    /\ ParseIdle
    /\ FrontIdle

SfmUnchanged ==
    UNCHANGED <<st_vars, lower_vars, walk_vars, run_vars, agg_vars, parse_vars,
                front_end, raw, max_parameter_count, riscv, back_pc, reg, mem,
                asm_pc, at_call>>

SfmClear ==
    /\ sfm_calls # <<>>
    /\ sfm' = sfm_clear
    /\ sfm_calls' = <<>>
    /\ SfmUnchanged

SfmAlloc ==
    /\ Len(sfm_calls) < MaxCalls
    /\ \E variable_id \in SfmValues, size \in SlotSizes :
         /\ sfm' = sfm_alloc(sfm, variable_id, size)
         /\ sfm_calls' = Append(sfm_calls, SfmCall("alloc", variable_id, size))
    /\ SfmUnchanged

SfmAllocLower ==
    /\ Len(sfm_calls) < MaxCalls
    /\ \E size \in LowerSizes :
         /\ sfm' = sfm_alloc_lower(sfm, size)
         /\ sfm_calls' = Append(sfm_calls, SfmCall("alloc_lower", 0, size))
    /\ SfmUnchanged

SfmAllocUpper ==
    /\ Len(sfm_calls) < MaxCalls
    /\ \E size \in UpperSizes :
         /\ sfm' = sfm_alloc_upper(sfm, size)
         /\ sfm_calls' = Append(sfm_calls, SfmCall("alloc_upper", 0, size))
    /\ SfmUnchanged

NextSfm == SfmClear \/ SfmAlloc \/ SfmAllocLower \/ SfmAllocUpper

SpecSfm == InitSfm /\ [][NextSfm]_vars

----------------------------------------------------------------------------
(* Properties of the symbol table.                                         *)

\* C2: after any sequence of push, pop and insert the internal names given
\* to const and variable symbols are pairwise distinct, whatever the scope
\* (open, sibling or already popped) they were inserted in.
InternalNamesDistinct ==
    \A i, j \in 1..Len(names_given) :
        i # j => names_given[i] # names_given[j]

\* Witness of C2: the same raw name was inserted at the same depth in two
\* sibling scopes, the first of which is popped, and shadows an outer one.
InternalNamesWitness ==
    /\ \E i, j \in 1..Len(names_given) :
          /\ i < j
          /\ names_given[i] = <<"x", "_", "2", "_", "1">>
          /\ names_given[j] = <<"x", "_", "2", "_", "2">>
    /\ \E s \in popped : s.internal_name = <<"x", "_", "2", "_", "1">>
    /\ \E k \in 1..Len(names_given) : names_given[k] = <<"x", "_", "1", "_", "1">>

\* The scopes of open_log that hold an insert of raw_name.
ScopesWith(raw_name) ==
    { i \in 1..Len(open_log) :
        \E j \in 1..Len(open_log[i]) : open_log[i][j][1] = raw_name }

Greatest(S) == CHOOSE m \in S : \A n \in S : n <= m

\* The symbol last inserted under raw_name in the innermost open scope that
\* holds raw_name, read from the history of inserts.
ExpectedLookup(raw_name) ==
    IF ScopesWith(raw_name) = {} THEN NoSymbol
    ELSE LET i == Greatest(ScopesWith(raw_name))
             j == Greatest({ k \in 1..Len(open_log[i]) : open_log[i][k][1] = raw_name })
         IN  open_log[i][j][2]

\* C3: lookup returns the symbol last inserted under the name in the
\* innermost open scope holding it, nothing when no open scope holds it, and
\* never a symbol of a popped scope.
LookupNearestScope ==
    \A raw_name \in RawNames :
        /\ st_at(table_stack, raw_name) = ExpectedLookup(raw_name)
        /\ st_at(table_stack, raw_name) \notin popped

\* Witness of C3: a name is held by two open scopes and by a popped one, and
\* lookup answers with the inner open one.
LookupWitness ==
    \E raw_name \in RawNames :
        /\ Cardinality(ScopesWith(raw_name)) >= 2
        /\ \E s \in popped : \E i \in 1..Len(names_given) :
              /\ s.internal_name = names_given[i]
              /\ SubSeq(s.internal_name, 1, Len(raw_name)) = raw_name
        /\ st_at(table_stack, raw_name).uid =
              open_log[Len(open_log)][Len(open_log[Len(open_log)])][2].uid
        /\ Len(open_log[Len(open_log)]) > 0
        /\ st_at(table_stack, raw_name) # table_stack[1][raw_name]

----------------------------------------------------------------------------
(* Properties of one expression folded, lowered and run.                   *)

\* The drawn expression is `a && b` or `a || b` and its IR is being run.
TopShortCircuit == phase \in {"used", "lowered"} /\ koopa # <<>> /\ expr[1] \in {"land", "lor"}

\* The number of lines lowering the left and the right operand emits.
LeftLen == Len(operand_of(expr[2], ZeroCounters, table_stack).code)
RightLen == Len(operand_of(expr[3], ZeroCounters, table_stack).code)

\* The line of the br on a, and of the label of the short-circuit block.
TopBr == 2 + LeftLen + 1
ShortCircuitLabel == TopBr + 1 + RightLen + 5 + 1

\* The lines lowering b emitted.
RightLines == (TopBr + 2)..(TopBr + 1 + RightLen)

\* The value of a that decides the result, and the result it decides.
Decides(v) == IF expr[1] = "land" THEN v = 0 ELSE v # 0
DecidedValue == IF expr[1] = "land" THEN 0 ELSE 1

\* The br on a was executed with a value that decides the result.
Decided == TopShortCircuit /\ \E k \in 1..Len(br_log) :
                                  br_log[k][1] = TopBr /\ Decides(br_log[k][2])

Range(s) == { s[k] : k \in 1..Len(s) }

\* C1: when a decides `a && b` (a = 0) or `a || b` (a # 0), the br on a goes
\* to the short-circuit block, which only stores the decided value (0 or 1)
\* in the result slot and jumps on; no line emitted by lowering b, nor any
\* other line between the br and the short-circuit block, is executed, and
\* the result loaded afterwards is the stored value.
ShortCircuitSkipsRight ==
    TopShortCircuit =>
        LET sc == ShortCircuitLabel
            slot == Tmp(koopa[1].dst)
        IN  /\ koopa[1].op = "alloc"
            /\ koopa[TopBr].op = "br"
            /\ koopa[sc].op = "label"
            /\ koopa[sc].l1 = (IF expr[1] = "land" THEN koopa[TopBr].l2 ELSE koopa[TopBr].l1)
            /\ koopa[sc + 1] = Store(Imm(DecidedValue), slot)
            /\ koopa[sc + 2].op = "jump"
            /\ koopa[sc + 3] = LabelLine(koopa[sc + 2].l1)
            /\ koopa[sc + 4] = Load(result.n, slot)
            /\ Len(koopa) = sc + 4
            /\ Decided =>
                 /\ executed \cap (TopBr + 1)..(sc - 1) = {}
                 /\ executed \cap RightLines = {}
                 /\ <<"g">> \notin Range(call_log)
                 /\ sc + 1 \in executed \/ run_pc <= sc + 1
                 /\ Finished => ValueOf(result) = DecidedValue

\* Witness of C1: a decided `a || b` whose right operand calls g, and the run
\* has come to its end.
ShortCircuitWitness ==
    /\ Decided
    /\ Finished
    /\ expr[1] = "lor"
    /\ expr[3][1] = "land"
    /\ RightLen > 0
    /\ ValueOf(result) = 1

\* The drawn expression folds to a value without undefined behaviour.
FoldsDefined == get_inline_number(expr, table_stack).k = "some"

\* C9: for a constant expression (literals under unary + - !, * / %, + -,
\* the comparisons, && and ||; divisors not zero) the folded value is the
\* value that running the lines the operator's lowering emits on the folded
\* operands leaves in the result, and folding the folded value again gives
\* the same value.
FoldAgreesWithLowering ==
    (phase = "lowered" /\ Finished /\ FoldsDefined) =>
        /\ fold_result = get_inline_number(expr, table_stack)
        /\ ValueOf(result) = fold_result.v
        /\ get_inline_number(Num(fold_result.v), table_stack) = fold_result

\* Witness of C9: a division that truncates towards zero was folded, lowered
\* and run.
FoldAgreesWitness ==
    /\ phase = "lowered"
    /\ Finished
    /\ FoldsDefined
    /\ expr[1] = "mul"
    /\ expr[2] = "/"
    /\ get_inline_number(expr[3], table_stack).v < 0
    /\ get_inline_number(expr[4], table_stack).v = 2
    /\ fold_result = Some(0)
    /\ Len(koopa) = 1

\* The drawn expression is a `/` or `%` whose operands fold and whose right
\* operand folds to 0.
ZeroDivisor ==
    /\ expr[1] = "mul"
    /\ expr[2] \in {"/", "%"}
    /\ get_inline_number(expr[3], table_stack).k = "some"
    /\ get_inline_number(expr[4], table_stack) = Some(0)

\* C10: folding a `/` or `%` whose right operand folds to 0 ends in an
\* error: no value is produced and the front end does not go on.
FoldByZeroIsError ==
    (ZeroDivisor /\ phase # "parsed") => (phase = "aborted" /\ fold_result.k # "some")

----------------------------------------------------------------------------
(* Properties of the IR of a translation unit.                             *)

Lines == 1..Len(koopa)
LabelLines == { i \in Lines : koopa[i].op = "label" }
Terminators == {"br", "jump", "ret"}

\* The labels named by the br or jump at line i.
TargetsAt(i) ==
    CASE koopa[i].op = "br" -> {koopa[i].l1, koopa[i].l2}
      [] koopa[i].op = "jump" -> {koopa[i].l1}
      [] OTHER -> {}

\* A label "<kind>_<number>" is the sequence <<kind, "_", digits...>>.
KindOf(l) == l[1]
NumberOf(l) == SubSeq(l, 3, Len(l))

\* The header of the function line i lies in, and whether its closing brace
\* has been emitted.
FunctionOf(i) == Greatest({ j \in 1..i : koopa[j].op = "fun" })
InFunction(i) == \E j \in 1..i : koopa[j].op = "fun"
Closed(s) == \E e \in s..Len(koopa) : koopa[e].op = "end"
EndOf(s) == CHOOSE e \in s..Len(koopa) :
                koopa[e].op = "end" /\ \A k \in s..(e - 1) : koopa[k].op # "end"

\* C4: every label of the translation unit is defined exactly once, and the
\* label read from a counter carries the number of the label minted just
\* before it: else_k goes with if_k, land_sc_k with land_k, lor_sc_k with
\* lor_k, and while_body_k with the header while_k last defined.
LabelsDefinedOnce ==
    /\ Cardinality({ koopa[i].l1 : i \in LabelLines }) = Cardinality(LabelLines)
    /\ \A i \in Lines : koopa[i].op = "br" =>
         LET t == koopa[i].l1
             f == koopa[i].l2
         IN  /\ KindOf(f) = "else" => KindOf(t) = "if" /\ NumberOf(t) = NumberOf(f)
             /\ KindOf(t) = "land" => KindOf(f) = "land_sc" /\ NumberOf(t) = NumberOf(f)
             /\ KindOf(f) = "lor" => KindOf(t) = "lor_sc" /\ NumberOf(t) = NumberOf(f)
             /\ KindOf(t) = "while_body" =>
                  LET headers == { j \in 1..i : koopa[j].op = "label"
                                                  /\ KindOf(koopa[j].l1) = "while" }
                  IN  /\ headers # {}
                      /\ NumberOf(koopa[Greatest(headers)].l1) = NumberOf(t)

\* Witness of C4: an if with an else branch whose if branch holds another if
\* and a short-circuit condition, all closed, in a finished function.
LabelsWitness ==
    /\ frames = <<>>
    /\ \E i, j \in LabelLines :
          /\ koopa[i].l1 = <<"if", "_", "2">>
          /\ koopa[j].l1 = <<"else", "_", "1">>
          /\ i < j
    /\ \E i \in LabelLines : KindOf(koopa[i].l1) = "land_sc"

\* C5: in every finished function each label named by a br or a jump (those
\* of break and continue included) is defined exactly once in that function.
TargetsDefinedOnce ==
    \A i \in Lines :
        (TargetsAt(i) # {} /\ Closed(FunctionOf(i))) =>
            \A l \in TargetsAt(i) :
                Cardinality({ j \in FunctionOf(i)..EndOf(FunctionOf(i)) :
                                koopa[j].op = "label" /\ koopa[j].l1 = l }) = 1

\* Witness of C5: two finished functions, the second with a break in a loop.
TargetsWitness ==
    /\ frames = <<>>
    /\ Cardinality({ i \in Lines : koopa[i].op = "fun" }) = 2
    /\ \E i \in 2..(Len(koopa) - 1) :
          /\ koopa[i].op = "jump"
          /\ KindOf(koopa[i].l1) = "seq"
          /\ koopa[i + 1].op = "label"
          /\ koopa[i + 1].l1 # koopa[i].l1
          /\ koopa[i - 1].op = "label"
          /\ KindOf(koopa[i - 1].l1) = "while_body"
          /\ koopa[FunctionOf(i)].sub = <<"f", "_", "2">>

DefiningLines == { i \in Lines : koopa[i].dst # 0 }

\* C6: each temporary %N is on the left-hand side of at most one line.
TemporariesDefinedOnce ==
    Cardinality({ koopa[i].dst : i \in DefiningLines }) = Cardinality(DefiningLines)

\* Witness of C6: the IR holds the lines of an `||`, of an array initializer
\* and of an index chain on a pointer parameter.
TemporariesWitness ==
    /\ \E i \in Lines : koopa[i].op = "label" /\ KindOf(koopa[i].l1) = "lor_sc"
    /\ \E i \in Lines : koopa[i].op = "getelemptr" /\ koopa[i].a.k = "sym"
    /\ \E i \in Lines : koopa[i].op = "getptr"
    /\ Cardinality(DefiningLines) > 20

\* The temporaries line i reads.
UsesAt(i) ==
    { o.n : o \in { p \in {koopa[i].a, koopa[i].b} \cup Range(koopa[i].args) :
                      p.k = "tmp" } }

\* Line i opens a block of the lowering of `&&` or `||`: the branch that
\* evaluates the right operand, the short-circuit branch, or their join.
ShortCircuitLabelAt(i) ==
    /\ koopa[i].op = "label"
    /\ \/ KindOf(koopa[i].l1) \in {"land", "land_sc", "lor", "lor_sc"}
       \/ /\ i > 3
          /\ koopa[i - 3].op = "label"
          /\ KindOf(koopa[i - 3].l1) \in {"land_sc", "lor_sc"}

\* C7 as stated: every line that uses %N lies after the line producing it
\* and in the same basic block.
UsesInProducingBlock ==
    \A j \in Lines : \A n \in UsesAt(j) :
        \E i \in 1..(j - 1) :
            /\ koopa[i].dst = n
            /\ \A k \in (i + 1)..j : koopa[k].op # "label"

\* C7 amended: every line that uses %N lies after the line producing it, in
\* the same function, and every block opened between the two is a block of
\* the lowering of a `&&` or `||`.
UsesAfterProducer ==
    \A j \in Lines : \A n \in UsesAt(j) :
        \E i \in 1..(j - 1) :
            /\ koopa[i].dst = n
            /\ \A k \in (i + 1)..j :
                 /\ koopa[k].op # "fun"
                 /\ koopa[k].op = "label" => ShortCircuitLabelAt(k)

\* Witness of C7: an assignment stores the value loaded before the blocks of
\* an `&&` in its index chain, after them.
UsesWitness ==
    \E j \in Lines :
        /\ koopa[j].op = "store"
        /\ koopa[j].a.k = "tmp"
        /\ koopa[j].b.k = "tmp"
        /\ \E i \in 1..(j - 1) :
              /\ koopa[i].dst = koopa[j].a.n
              /\ koopa[i].op = "load"
              /\ \E k \in (i + 1)..j : koopa[k].op = "label"

\* C8: in every finished function each block ends with a terminator and
\* holds no other: the line before a label or the closing brace is a br, jump
\* or ret, the line after a br, jump or ret is a label or the closing brace,
\* and the last line is the default ret, `ret 0` unless the function is void.
BlocksTerminated ==
    \A s \in Lines : (koopa[s].op = "fun" /\ Closed(s)) =>
        LET e == EndOf(s)
        IN  /\ koopa[s + 1].op = "label"
            /\ \A i \in (s + 2)..e :
                 koopa[i].op \in {"label", "end"} => koopa[i - 1].op \in Terminators
            /\ \A i \in (s + 1)..(e - 1) :
                 koopa[i].op \in Terminators => koopa[i + 1].op \in {"label", "end"}
            /\ koopa[e - 1] = Ret(IF koopa[s].l1 = <<"void">> THEN NoOperand ELSE Imm(0))

\* Witness of C8: a finished int function and a finished void function, one
\* of which holds a return statement inside a loop.
BlocksWitness ==
    /\ frames = <<>>
    /\ \E s \in Lines : koopa[s].op = "fun" /\ koopa[s].l1 = <<"int">>
    /\ \E s \in Lines : koopa[s].op = "fun" /\ koopa[s].l1 = <<"void">>
    /\ \E i \in 1..(Len(koopa) - 2) :
          /\ koopa[i].op = "ret"
          /\ koopa[i + 1].op = "label"
          /\ koopa[i + 2].op = "jump"
          /\ KindOf(koopa[i + 2].l1) = "while"

----------------------------------------------------------------------------
(* Properties of one function compiled by the back end and run.            *)

RECURSIVE SlotBytes(_, _)
\* The sizes of the slots of the instructions from i on, added up.
SlotBytes(insts, i) ==
    IF i > Len(insts) THEN 0
    ELSE (IF insts[i].ty.tag = "unit" THEN 0 ELSE get_size(insts[i].ty))
         + SlotBytes(insts, i + 1)

\* The arguments of the calls of the function beyond the eighth, at most.
ExtraArguments(insts) ==
    LET extra == { Len(insts[i].ins.args) - 8 :
                     i \in { n \in 1..Len(insts) : insts[n].ins.op = "call" } }
    IN  IF \E e \in extra : e > 0 THEN CHOOSE e \in extra : \A o \in extra : o <= e
        ELSE 0

\* The smallest multiple of 16 that is at least n.
SmallestMultiple(n) ==
    CHOOSE r \in { 16 * q : q \in 0..(n \div 16 + 1) } : r >= n /\ r - 16 < n

FrameBytes == SmallestMultiple(4 * ExtraArguments(raw.insts) + SlotBytes(raw.insts, 1) + 4)

\* C12: whenever an instruction of the prologue or of an epilogue that
\* writes sp is executed, sp is lowered (prologue) or raised (epilogue) by
\* the smallest multiple of 16 that is at least the bytes of the lower
\* region plus the sizes of the slots plus 4.
FrameRounded ==
    [][(asm_pc' # asm_pc /\ riscv[asm_pc].rd = "sp") =>
          reg'["sp"] - reg["sp"] =
              (IF riscv[asm_pc].at = 0 THEN 0 - FrameBytes ELSE FrameBytes)]_vars

\* Witness of C12: a function with a lower region whose frame had to be
\* rounded has run its prologue and its epilogue.
FrameWitness ==
    /\ asm_pc = 0
    /\ ExtraArguments(raw.insts) = 2
    /\ (4 * ExtraArguments(raw.insts) + SlotBytes(raw.insts, 1) + 4) % 16 # 0
    /\ reg["sp"] = StackTop

\* The value of an argument of a call drawn: the literal, or the x the
\* function was entered with.
ArgumentValue(o) == IF o.k = "imm" THEN o.n ELSE EnteredX(raw.source)

\* Argument i (from 0) of the call c is where the callee expects it.
ArgumentPlaced(c, args, i) ==
    IF i < 8 THEN c.reg[argument_register(i)] = ArgumentValue(args[i + 1])
    ELSE /\ c.mem[c.reg["sp"] + 4 * (i - 8)] = ArgumentValue(args[i + 1])
         /\ 4 * (i - 8) + 4 <= sfm.additional_lower

\* C11: at every call instruction executed, argument i of the call is in
\* register a_i for i < 8, and for i >= 8 in the word at 4 * (i - 8) from
\* sp, inside the lower region, whose size is 4 bytes for each argument
\* beyond the eighth of the call of the function with the most arguments.
ArgumentsPlaced ==
    \A n \in 1..Len(at_call) :
        /\ sfm.additional_lower = 4 * ExtraArguments(raw.insts)
        /\ \A i \in 0..(Len(raw.insts[at_call[n].at].ins.args) - 1) :
               ArgumentPlaced(at_call[n], raw.insts[at_call[n].at].ins.args, i)

\* Witness of C11: a call with nine arguments, some of them read from a
\* variable, and then one with ten were executed.
ArgumentsWitness ==
    /\ Len(at_call) = 2
    /\ raw.source.family = "call"
    /\ raw.source.i = 9
    /\ raw.source.j = 10
    /\ raw.source.as_x

\* The address of the storage of the local array a while the function runs.
ArrayStorage ==
    StackTop - sfm_rounded_size(sfm)
    + sfm_offset(sfm, value_index(raw.insts,
                                  Sym(st_at(FunctionEntered.stack, <<"a">>).internal_name)))

\* The words of the frame that hold a or the slot of a value other than the
\* temporaries of the assignment.
GuardedWords ==
    { ArrayStorage + 4 * w : w \in 0..5 }
    \cup { StackTop - sfm_rounded_size(sfm) + sfm_offset(sfm, n) :
             n \in { k \in DOMAIN sfm.variable_to_index : raw.insts[k].ins.op = "alloc" } }

\* The index of the store of the assignment drawn: the line before the ret.
AssignmentStore == Len(raw.insts) - 1

\* C13: for int a[2][3], once the code generated for a[i][j] = v has run,
\* the word at 12 * i + 4 * j from the start of the storage of a holds v, and
\* the store instruction of the assignment has written no other word of a
\* or of the slots of the variables.
ElementStored ==
    (raw.source.family = "array" /\ asm_pc = 0) =>
        /\ mem[ArrayStorage + 12 * raw.source.i + 4 * raw.source.j] = raw.source.v
        /\ \A n \in 1..Len(riscv) :
               (riscv[n].at = AssignmentStore /\ riscv[n].op = "sw") =>
                   \A w \in GuardedWords :
                       (StackTop - sfm_rounded_size(sfm) + riscv[n].imm = w) =>
                           w = ArrayStorage + 12 * raw.source.i + 4 * raw.source.j

\* C20: when the multiplication emitted for a getelemptr or a getptr is
\* executed, the index is multiplied by the size of the element reached by
\* one indexing step from the source (the type the result points to).
StrideIsElementSize ==
    [][(asm_pc' # asm_pc /\ riscv[asm_pc].op = "mul") =>
          reg'[reg_y] = reg[reg_y] * get_size(raw.insts[riscv[asm_pc].at].ty.base)]_vars


\* The source operand of the getelemptr or getptr the instruction executed
\* next was emitted for.
SourceOfStep == value_index(raw.insts, raw.insts[riscv[asm_pc].at].ins.a)

\* C21: when the addition that ends the address computation of a getptr is
\* executed, the base it adds the scaled index to is the pointer value held
\* in the stack slot of the source, not the address of that slot.
PointerBaseLoaded ==
    [][(/\ asm_pc' # asm_pc
        /\ riscv[asm_pc].op = "add"
        /\ riscv[asm_pc].rd = reg_x
        /\ riscv[asm_pc].rs1 = reg_x
        /\ raw.insts[riscv[asm_pc].at].ins.op = "getptr") =>
          reg[reg_x] = mem[reg["sp"] + sfm_offset(sfm, SourceOfStep)]]_vars


\* The instruction of the function an assembly instruction was emitted for
\* is a ret.
OfEpilogue(a) == a.at # 0 /\ raw.insts[a.at].ins.op = "ret"

\* The instructions of the prologue that lower sp and save ra.
PrologueSp == CHOOSE n \in 1..Len(riscv) : riscv[n].at = 0 /\ riscv[n].rd = "sp"
PrologueRa == CHOOSE n \in 1..Len(riscv) : riscv[n].at = 0 /\ riscv[n].rs2 = reg_ra

\* The epilogues emitted so far undo the prologue, and a function that has
\* returned has left sp and ra as it found them.
EpilogueUndoesPrologue ==
    /\ \A n \in 1..Len(riscv) :
         OfEpilogue(riscv[n]) =>
           /\ riscv[n].rd = "sp" =>
                /\ riscv[n].op = "addi"
                /\ riscv[n].rs1 = "sp"
                /\ riscv[n].imm = 0 - riscv[PrologueSp].imm
                /\ riscv[n].imm = sfm_rounded_size(sfm)
           /\ riscv[n].rd = reg_ra =>
                /\ riscv[n].op = "lw"
                /\ riscv[n].rs1 = "sp"
                /\ riscv[n].imm = riscv[PrologueRa].imm
    /\ asm_pc = 0 =>
         /\ reg["sp"] = StackTop
         /\ reg[reg_ra] = 0 - 1
         /\ reg[reg_ra] = mem[StackTop - sfm_rounded_size(sfm) + riscv[PrologueRa].imm]

\* C22: from the end of the layout planning to the end of the emission the
\* stack_frame_manager is not changed, every epilogue raises sp by the
\* rounded frame size the prologue lowered it by and reloads ra from the
\* offset the prologue saved it at, and when the function returns sp is
\* what it was at entry and ra is the word saved.
FrameStable ==
    [][/\ back_pc[1] = "visit" => sfm' = sfm
       /\ EpilogueUndoesPrologue']_vars

\* Witness of C22: a function with two ret instructions, the first after a
\* call that passed an argument on the stack and overwrote ra, has returned.
FrameStableWitness ==
    /\ asm_pc = 0
    /\ raw.source.family = "return"
    /\ Len(at_call) = 1
    /\ sfm.additional_lower > 0
    /\ Cardinality({ n \in 1..Len(riscv) : riscv[n].op = "ret" }) = 2

----------------------------------------------------------------------------
(* Properties of aggregate initializers.                                   *)

RECURSIVE FlatSize(_, _)
\* The values in the flat buffers of the calls on the stack from frame i on:
\* the flat position the next item has in the array.
FlatSize(fs, i) == IF i > Len(fs) THEN 0 ELSE Len(fs[i].ret) + FlatSize(fs, i + 1)

\* The step reads the opening brace of a nested list.
BraceRead ==
    /\ Len(agg_input') = Len(agg_input) + 1
    /\ agg_input'[Len(agg_input')][1] = "{"

\* C14: whenever normalization meets a nested list at a flat position that
\* is not a multiple of the innermost length of the shape, it raises a
\* domain error, and after a domain error there is no flat vector.
MisalignedIsError ==
    [][/\ (agg_status = "running" /\ BraceRead
             /\ FlatSize(agg_frames, 1) % agg_shape[Len(agg_shape)] # 0)
          => agg_status' = "domain_error"
       /\ agg_status = "domain_error" =>
             (agg_status' = "domain_error" /\ agg_result' = <<>>)]_vars

\* The sub-array a nested list at position p of an array of the shape
\* size_hint initializes: the largest proper sub-array p is on a boundary of.
LargestAligned(p, size_hint) ==
    LET aligned == { k \in 1..Len(size_hint) : p % Product(hint_from(size_hint, k), 1) = 0 }
    IN  hint_from(size_hint, CHOOSE k \in aligned : \A o \in aligned : k <= o)

\* The sub-array of the innermost dimension.
InnermostOf(size_hint) ==
    IF Len(size_hint) = 1 THEN <<>> ELSE hint_from(size_hint, Len(size_hint) - 1)

\* The step is the recursive call for a nested list.
NestedCalled == agg_status' = "running" /\ Len(agg_frames') = Len(agg_frames) + 1

\* The step is the return of the call for a nested list.
NestedReturned == agg_status = "running" /\ Len(agg_frames') = Len(agg_frames) - 1

\* C17 as stated: a nested list met at position p is the initializer of the
\* sub-array of the innermost dimension, and the item after it lands at p
\* plus the size of that sub-array.
NestedIsInnermost ==
    [][/\ NestedCalled =>
             agg_frames'[Len(agg_frames')].size_hint =
                 InnermostOf(agg_frames[Len(agg_frames)].size_hint)
       /\ NestedReturned =>
             Len(agg_frames'[Len(agg_frames')].ret) =
                 Len(agg_frames[Len(agg_frames')].ret)
                 + Product(agg_frames[Len(agg_frames)].size_hint, 1)]_vars

\* C17 amended: a nested list met at position p is the initializer of the
\* largest proper sub-array on a boundary of which p lies; its values are
\* followed by zeros up to the size of that sub-array when they are fewer,
\* so the item after it lands at p plus the size of the sub-array, or p plus
\* the number of values of the list when that is more.
NestedIsLargestAligned ==
    [][/\ NestedCalled =>
             agg_frames'[Len(agg_frames')].size_hint =
                 LargestAligned(Len(agg_frames[Len(agg_frames)].ret),
                                agg_frames[Len(agg_frames)].size_hint)
       /\ NestedReturned =>
             LET child == agg_frames[Len(agg_frames)]
                 size == Product(child.size_hint, 1)
                 fill == IF Len(child.ret) < size THEN size - Len(child.ret) ELSE 0
             IN  agg_frames'[Len(agg_frames')].ret =
                     agg_frames[Len(agg_frames')].ret \o child.ret
                     \o [n \in 1..fill |-> 0]]_vars

\* Witness of C17: in an array of three dimensions a list nested at
\* position 0 with one value was followed by an item, which landed at the
\* size of the sub-array of the two inner dimensions.
NestedWitness ==
    /\ agg_shape = <<2, 3, 2>>
    /\ agg_status = "running"
    /\ agg_input = << <<"{", 0>>, <<"num", 1>>, <<"}", 0>>, <<"num", 2>> >>
    /\ agg_frames[1].ret = <<1, 0, 0, 0, 0, 0, 2>>

\* C16: for an initializer whose flat vector has as many values as the
\* array has elements, the stores generate_variable_initialization_code
\* emits are, for every flat index k, one store of value k of the flat
\* vector of generate_variable_aggregate at the indices of k in the shape.
StoresMatchAggregate ==
    (agg_status = "done" /\ Len(agg_result) = Product(agg_shape, 1)) =>
        /\ code_run.status = "done"
        /\ code_run.stores = [k \in 1..Product(agg_shape, 1) |->
                                 <<flatten_to_indices(k - 1, agg_shape), agg_result[k]>>]

----------------------------------------------------------------------------
(* Properties of a reference to an undeclared name.                        *)

\* The statement lowered by the step names a symbol the table does not hold.
AbsentReferenced == UndeclaredReference

\* C15: lowering a reference to a name that is in no open scope (an lvalue
\* read, an assignment target or a function call) ends the front end in a
\* fatal error with a diagnostic and adds no IR.
AbsentIsFatal ==
    [][AbsentReferenced => front_end' = "terminate" /\ koopa' = koopa]_vars

----------------------------------------------------------------------------
(* Properties of break and continue in nested loops.                       *)

\* The while statements being lowered, by their position on the call stack.
WhileFrames == { i \in 1..Len(frames) : frames[i].kind = "while" }

\* The innermost while statement that encloses the statement lowered next.
InnermostWhile == frames[CHOOSE i \in WhileFrames : \A j \in WhileFrames : j <= i]

\* w is a loop of the IR: its header label is emitted and a later br leaves
\* its body for the exit label.
LoopEmitted(w) ==
    \E i, j \in 1..Len(koopa) :
        /\ i < j
        /\ koopa[i] = LabelLine(w.id)
        /\ koopa[j].op = "br"
        /\ koopa[j].l1 = <<"while_body">> \o Tail(w.id)
        /\ koopa[j].l2 = w.next

\* The step lowers a statement inside a loop, and the first line it emits
\* is a jump to target.
JumpsTo(target) ==
    /\ WhileFrames # {}
    /\ LoopEmitted(InnermostWhile)
    /\ Len(koopa') > Len(koopa)
    /\ koopa'[Len(koopa) + 1] = Jump(target)

\* C18: every break emits a jump to the exit label and every continue a jump
\* to the header label of the innermost while statement that encloses it,
\* through any blocks and if/else branches in between and also after an
\* inner loop of the same body has ended.
JumpsToInnermost ==
    [][/\ Break => JumpsTo(InnermostWhile.next)
       /\ Continue => JumpsTo(InnermostWhile.id)]_vars

\* Witness of C18: a break has just been lowered in the body of an outer
\* loop, after an inner loop of that body which holds a break of its own
\* has ended.
LoopsWitness ==
    /\ Cardinality(WhileFrames) = 1
    /\ Len(koopa) >= 2
    /\ koopa[Len(koopa) - 1] = Jump(InnermostWhile.next)
    /\ \E h, j, k, e \in 1..Len(koopa) :
         /\ h < j /\ j < k /\ k < e /\ e < Len(koopa) - 1
         /\ koopa[h] = LabelLine(InnermostWhile.id)
         /\ koopa[j].op = "br"
         /\ koopa[j].l1[1] = "while_body"
         /\ koopa[j].l2 # InnermostWhile.next
         /\ koopa[k] = Jump(koopa[j].l2)
         /\ koopa[k + 1] # LabelLine(koopa[j].l2)
         /\ koopa[e] = LabelLine(koopa[j].l2)

----------------------------------------------------------------------------
(* Properties of array shapes that name a const.                           *)

\* Dimension d of definition i names the scalar const definition j declares
\* earlier in the file.
NamesEarlierConst(i, d, j) ==
    /\ j < i
    /\ unit[j].kind = "const"
    /\ unit[i].shape[d] = LVal(unit[j].raw_name, <<>>)

\* C19: an array shape that names a scalar const declared earlier in the
\* source folds to the value of that const, the const being in the symbol
\* table when the shape is folded.
ShapeFoldsToConst ==
    /\ front_end = "running"
    /\ \A i \in 1..Len(ast) : \A d \in 1..Len(unit[i].shape) : \A j \in 1..Len(unit) :
         NamesEarlierConst(i, d, j) => ast[i].type.dims[d] = unit[j].value[2]

----------------------------------------------------------------------------
(* Properties of the stack_frame_manager.                                  *)

\* The calls of alloc that are the first for their value, by position.
FirstAllocs ==
    { n \in 1..Len(sfm_calls) :
        /\ sfm_calls[n].op = "alloc"
        /\ \A k \in 1..(n - 1) :
             ~(sfm_calls[k].op = "alloc" /\ sfm_calls[k].id = sfm_calls[n].id) }

\* The size the last call of op asked for, 0 when there was none.
LastAsked(op) ==
    LET calls == { n \in 1..Len(sfm_calls) : sfm_calls[n].op = op }
    IN  IF calls = {} THEN 0
        ELSE sfm_calls[CHOOSE n \in calls : \A k \in calls : k <= n].size

Bytes(from, size) == { from + b : b \in 0..(size - 1) }

\* The bytes of the frame that belong to the value first allocated by call n.
SlotOf(n) == Bytes(sfm_offset(sfm, sfm_calls[n].id), sfm_calls[n].size)

LowerRegion == Bytes(sfm_offset_lower(sfm), LastAsked("alloc_lower"))
UpperRegion == Bytes(sfm_offset_upper(sfm), LastAsked("alloc_upper"))

FrameLaidOut ==
    /\ DOMAIN sfm.variable_to_index = { sfm_calls[n].id : n \in FirstAllocs }
    /\ LowerRegion \cap UpperRegion = {}
    /\ LowerRegion \cup UpperRegion \subseteq Bytes(0, sfm_rounded_size(sfm))
    /\ \A n \in FirstAllocs :
         /\ SlotOf(n) \cap LowerRegion = {}
         /\ SlotOf(n) \cap UpperRegion = {}
         /\ SlotOf(n) \subseteq Bytes(0, sfm_rounded_size(sfm))
         /\ \A k \in FirstAllocs :
              k < n => /\ SlotOf(k) \cap SlotOf(n) = {}
                       /\ sfm_offset(sfm, sfm_calls[k].id) + sfm_calls[k].size
                            <= sfm_offset(sfm, sfm_calls[n].id)

\* The step is an alloc of a value that is allocated already.
AllocRepeated ==
    /\ Len(sfm_calls') = Len(sfm_calls) + 1
    /\ sfm_calls'[Len(sfm_calls')].op = "alloc"
    /\ sfm_count(sfm, sfm_calls'[Len(sfm_calls')].id)

\* C23: after clear() and any calls of alloc, alloc_lower and alloc_upper
\* the lower region, the slot of every value and the upper region are
\* pairwise disjoint and inside [0, rounded_size()), the slots lie in the
\* order of their first alloc, and an alloc of a value already allocated
\* changes nothing.
FrameRegionsDisjoint ==
    [][FrameLaidOut' /\ (AllocRepeated => sfm' = sfm)]_vars

\* Witness of C23: a lower and an upper region and two values of different
\* sizes are allocated, one of the values twice.
FrameRegionsWitness ==
    /\ LastAsked("alloc_lower") > 0
    /\ LastAsked("alloc_upper") > 0
    /\ Cardinality(FirstAllocs) = 2
    /\ \A n \in FirstAllocs : sfm_calls[n].size > 0
    /\ \E n \in 1..Len(sfm_calls) : sfm_calls[n].op = "alloc" /\ n \notin FirstAllocs

----------------------------------------------------------------------------
(* Properties of a caller and its callee.                                  *)

\* The value the caller passes for argument i (from 0) of its call of g.
Passed(i) ==
    IF raw.source.as_x /\ i % 2 = 1 THEN MaxArgs + 1 ELSE i + 1

\* The instruction executed next is the first of the code of a store of a
\* parameter of g to its variable; ParameterRead is the index of that
\* parameter.
ReadsParameter ==
    /\ raw.source.family = "callee"
    /\ asm_pc' # asm_pc
    /\ riscv[asm_pc].at # 0
    /\ raw.insts[riscv[asm_pc].at].ins.op = "store"
    /\ riscv[asm_pc].rd = reg_x

ParameterRead == argument_index(raw.params, raw.insts[riscv[asm_pc].at].ins.a)

\* C24: the callee reads parameter i < 8 from register a_i, and parameter
\* i >= 8 from the word at 4 * (i - 8) above the sp of the call, which is
\* callee sp + callee rounded frame size + 4 * (i - 8) and is the word the
\* caller stored argument i to.
ParameterReadWherePassed ==
    [][ReadsParameter =>
         /\ reg'[reg_x] = Passed(ParameterRead)
         /\ IF ParameterRead < 8
            THEN /\ riscv[asm_pc].op = "mv"
                 /\ riscv[asm_pc].rs1 = argument_register(ParameterRead)
            ELSE /\ riscv[asm_pc].op = "lw"
                 /\ reg[riscv[asm_pc].rs1] + riscv[asm_pc].imm
                      = at_call[1].reg["sp"] + 4 * (ParameterRead - 8)
                 /\ reg[riscv[asm_pc].rs1] + riscv[asm_pc].imm
                      = reg["sp"] + sfm_rounded_size(sfm) + 4 * (ParameterRead - 8)
                 /\ at_call[1].mem[at_call[1].reg["sp"] + 4 * (ParameterRead - 8)]
                      = Passed(ParameterRead)]_vars

\* Witness of C24: a callee with ten parameters and an array, whose frame
\* is not the size of the caller's, has stored its last parameter, passed
\* from a variable, to its slot.
ParameterWitness ==
    /\ raw.source.family = "callee"
    /\ raw.source.i = MaxArgs
    /\ raw.source.j = 2
    /\ raw.source.as_x
    /\ asm_pc = 0
    /\ sfm_rounded_size(sfm) # StackTop - at_call[1].reg["sp"]
    /\ mem[reg["sp"] - sfm_rounded_size(sfm)
           + sfm_offset(sfm, value_index(raw.insts,
                                         Sym(format_us(format_us(<<"q", "9">>, 2), 1))))]
         = MaxArgs + 1

----------------------------------------------------------------------------
(* Properties of the stack load and store helpers.                         *)

InImmediateRange(offset) == -2048 <= offset /\ offset <= 2047

\* The instruction of the helper that accesses memory.
AccessOf(src, imm) ==
    IF src.family = "load" THEN Lw(src.registers[1], imm, "sp")
    ELSE Sw(src.registers[1], imm, "sp")

\* The code of the helper has been run to its end.
AccessRun == riscv # <<>> /\ asm_pc = Len(riscv) + 1

\* C25: for an offset outside [-2048, 2047] the helper emits li of the
\* offset into the scratch register, add to sp, the access at 0(sp) and
\* sub from sp, and sp is the same after the sequence as before it; for an
\* offset inside the range it emits the single lw or sw with the offset as
\* immediate, and sp is never written.  Either way the word accessed is
\* the one at the offset from the sp the sequence was entered with.
AccessKeepsSp ==
    /\ (riscv # <<>> /\ InImmediateRange(raw.source.offset)) =>
         /\ riscv = <<AccessOf(raw.source, raw.source.offset)>>
         /\ reg["sp"] = AccessSp
    /\ (riscv # <<>> /\ ~InImmediateRange(raw.source.offset)) =>
         riscv = <<Li(raw.source.registers[2], raw.source.offset),
                   Add("sp", "sp", raw.source.registers[2]),
                   AccessOf(raw.source, 0),
                   Sub("sp", "sp", raw.source.registers[2])>>
    /\ AccessRun =>
         /\ reg["sp"] = AccessSp
         /\ raw.source.family = "load" =>
              /\ reg[raw.source.registers[1]] = AccessSp + raw.source.offset
              /\ \A a \in DOMAIN mem : mem[a] = a
         /\ raw.source.family = "store" =>
              \A a \in DOMAIN mem :
                  mem[a] = IF a = AccessSp + raw.source.offset THEN AccessValue ELSE a

\* Witness of C25: a store at the first offset above the range has been
\* run, and the word at that offset from the entered sp holds the value.
AccessWitness ==
    /\ AccessRun
    /\ raw.source.offset = 2048
    /\ raw.source.family = "store"
    /\ mem[AccessSp + 2048] = AccessValue

----------------------------------------------------------------------------
(* Properties of the slots of the local allocations.                       *)

\* The values of the function that are allocs and have a slot.
AllocValues == { k \in DOMAIN sfm.variable_to_index : raw.insts[k].ins.op = "alloc" }

\* The size of the slot of value k: the distance to the offset after it.
Reserved(k) ==
    sfm.offsets[sfm.variable_to_index[k] + 2] - sfm.offsets[sfm.variable_to_index[k] + 1]

\* The bytes an object of the allocated type takes from the offset of the
\* alloc at line k.
AllocatedBytes(k) == Bytes(sfm_offset(sfm, k), get_size(raw.insts[k].ty.base))

\* C26: once the frame is planned, the slot of every local alloc T is at
\* least sizeof(T) bytes, and the bytes of T from the slot's offset meet no
\* slot of another value, nor the outgoing-argument region, nor the saved
\* return-address word.
AllocSlotHoldsType ==
    back_pc[1] = "visit" =>
        \A k \in AllocValues :
            /\ Reserved(k) >= get_size(raw.insts[k].ty.base)
            /\ \A n \in DOMAIN sfm.variable_to_index \ {k} :
                   AllocatedBytes(k) \cap Bytes(sfm_offset(sfm, n), Reserved(n)) = {}
            /\ AllocatedBytes(k) \cap Bytes(sfm_offset_lower(sfm), sfm.additional_lower) = {}
            /\ AllocatedBytes(k) \cap Bytes(sfm_offset_upper(sfm), sfm.additional_upper) = {}

----------------------------------------------------------------------------
(* Properties of the names the symbols are emitted under.                  *)

\* Every symbol inserted so far, as stored by insert.
InsertedSymbols ==
    popped \cup UNION { { open_log[d][i][2] : i \in 1..Len(open_log[d]) } :
                        d \in 1..Len(open_log) }

\* C27: no two distinct entities share an "@" name: the internal name of a
\* const or variable never equals the name of a function.
NamesNotShared ==
    \A s, t \in InsertedSymbols :
        (s.kind # "function" /\ t.kind = "function") => s.internal_name # t.internal_name

----------------------------------------------------------------------------
(* Properties of the length of the flattened initializer.                  *)

\* C28: for every shape and every brace initializer on which
\* generate_variable_aggregate returns, the flattened vector returned has
\* exactly as many elements as the array, never more.
AggregateHasArraySize ==
    agg_status = "done" => Len(agg_result) = Product(agg_shape, 1)

----------------------------------------------------------------------------
(* Properties of the copies of the parameters into the frame.              *)

\* The lines of parameter i (counted from 0) in the raw function: after the
\* entry label each parameter has an alloc and the store into it.
ParameterAlloc(i) == 2 * i + 2
ParameterStore(i) == 2 * i + 3

\* The assembly instruction a may change register r: it names r as its
\* destination, or it is a call.
Writes(a, r) == a.rd = r \/ a.op = "call"

\* Instructions m and m + 1 of the code emitted copy the argument register
\* of parameter i into the slot of the parameter.
ParameterSavedAt(i, m) ==
    /\ riscv[m] = [Mv(reg_x, argument_register(i)) EXCEPT !.at = ParameterStore(i)]
    /\ riscv[m + 1] = [Sw(reg_x, sfm_offset(sfm, ParameterAlloc(i)), "sp")
                         EXCEPT !.at = ParameterStore(i)]

\* C29: in the code emitted for a function, an instruction that may write
\* the argument register a_i of a parameter i < 8 comes after the copy of
\* a_i into the slot of the parameter; the copies are emitted for the lines
\* directly after the entry label, and the code up to the last copy (the
\* prologue included) names only sp and the registers t1, t2, t3 as
\* destination and calls nothing.
ParametersSavedFirst ==
    \A i \in 0..(Len(raw.params) - 1) :
        i < 8 =>
            /\ back_pc[1] = "visit" /\ back_pc[2] > ParameterStore(i) =>
                 /\ raw.insts[ParameterStore(i)].ins.op = "store"
                 /\ raw.insts[ParameterStore(i)].ins.a = raw.params[i + 1]
                 /\ \E m \in 1..(Len(riscv) - 1) : ParameterSavedAt(i, m)
            /\ \A n \in 1..Len(riscv) :
                 /\ Writes(riscv[n], argument_register(i)) =>
                      \E m \in 1..(n - 2) : ParameterSavedAt(i, m)
                 /\ riscv[n].at <= ParameterStore(i) =>
                      /\ riscv[n].rd \in {"", "sp", reg_x, reg_y, reg_z}
                      /\ riscv[n].op # "call"

\* Witness of C29: the function has the parameters x and p, its code loads
\* the second argument of a call into a1, and the call has been executed.
ParametersSavedWitness ==
    /\ Len(raw.params) = 2
    /\ raw.source.family = "call"
    /\ at_call # <<>>
    /\ \E n \in 1..Len(riscv) :
         /\ riscv[n].rd = "a1"
         /\ \E m \in 1..(n - 2) : ParameterSavedAt(1, m)

----------------------------------------------------------------------------
(* Properties of the depth of the scope stack.                             *)

\* The tables pushed by the statements being lowered: a function has pushed
\* one for its parameters and its block one more, a block statement one.
PushedBy(kind) == CASE kind = "function" -> 2 [] kind = "block" -> 1 [] OTHER -> 0

RECURSIVE PushedByFrames(_, _)
PushedByFrames(fs, i) ==
    IF i > Len(fs) THEN 0 ELSE PushedBy(fs[i].kind) + PushedByFrames(fs, i + 1)

\* The raw names of the function symbols of table d of the stack.
FunctionsAt(d) ==
    { r \in DOMAIN table_stack[d] : table_stack[d][r].kind = "function" }

\* C30: while lowering goes on without an error the scope stack is
\* balanced: its depth is 1 plus the tables pushed by the functions and
\* blocks being lowered, so that the depth after a function or a block is
\* the depth before it and the depth between top-level items is 1; and the
\* function symbols are all in the outermost table, each function lowered
\* among them.
ScopeStackBalanced ==
    front_end = "running" =>
        /\ Len(table_stack) = 1 + PushedByFrames(frames, 1)
        /\ frames = <<>> => Len(table_stack) = 1
        /\ \A d \in 2..Len(table_stack) : FunctionsAt(d) = {}
        /\ \A i \in 1..Len(koopa) :
               koopa[i].op = "fun" => koopa[i].sub \in FunctionsAt(1)

\* Witness of C30: a function was lowered to its end, and in it a block
\* nested in the body, in which an array was defined at depth 4.
ScopeStackWitness ==
    /\ front_end = "running"
    /\ frames = <<>>
    /\ Len(table_stack) = 1
    /\ format_us(<<"b">>, 4) \in DOMAIN use_count
    /\ \E i \in 1..Len(koopa) : koopa[i].op = "fun"

====
